---- MODULE Spec2Model ----
(***************************************************************************)
(* A model of install-unity.py (sttz/install-unity, script version 0.0.7): *)
(* the installation reconciler install() with its move-aside / move-in /   *)
(* revert sequence, the version handling functions parse_version,          *)
(* compare_versions, input_matches_version and select_version, the class   *)
(* version_cache as main() drives it, load_ini and the manifest files,     *)
(* select_packages, download() with download_url, the hash check and the   *)
(* handlers at the end of the script, and the loop of main() over the      *)
(* selected versions with check_root and clean_up.                         *)
(***************************************************************************)
EXTENDS Integers, Sequences, FiniteSets, TLC

VARIABLES
    \* ---- install(): the Applications directory and the call's locals ----
    fs,                \* directory name -> content, NoDir when absent
    fs0,               \* fs when install() was entered (history)
    installs,          \* find_unity_installs(): installed version -> directory name
    version,           \* the target version of this install() call
    selected,          \* the selection, as returned by select_packages
    downloaded,        \* the selected packages whose file is in the download path
    operation,         \* args.operation: "None" (download and install) or "install"
    pc,                \* position in install()
    moved_unity_to,    \* local of install(), "None" when unset
    moved_unity_from,  \* local of install(), "None" when unset
    install_error,     \* local of install(), <<>> when None
    invoked,           \* the installer invocations so far, in order (history)
    outcome,           \* how install() ended
    \* ---- version selection ----
    arg_version,       \* a version as the user typed it (an element of args.versions)
    all_versions,      \* the candidate versions before sorting
    sorted_versions,   \* sorted(all_versions, compare_versions)
    selection,         \* what select_version returned, with the candidates it tried
    vpc,               \* position in the version selection
    \* ---- the version functions applied to texts ----
    text_a,            \* a text handed to parse_version or compare_versions
    text_b,            \* a second text
    text_c,            \* a third text
    presult,           \* what the functions returned
    ppc,               \* which of them have been applied
    \* ---- the version cache ----
    cache,             \* self.cache of the version_cache
    self_sorted_versions, \* self.sorted_versions, the memoized list
    cache_file,        \* the cache file on disk
    now,               \* datetime.datetime.utcnow(), in seconds
    runs,              \* how many times the script has been started
    cpc,               \* how far main() has come with the cache
    last_call,         \* the last call on the cache, its arguments and result (history)
    \* ---- the cached manifests ----
    ini_files,         \* version -> the text of unity-VERSION-osx.ini in script_dir
    args_update,       \* args.update of this run
    ini_todo,          \* the selected versions main() has not processed yet
    fetched,           \* the urls that load_ini has requested in this run (history)
    ini_call,          \* the last call of load_ini, and what it returned (history)
    ipc,               \* how far main() has come with the manifests
    \* ---- select_packages applied to manifests ----
    sel_config,        \* the manifest handed to select_packages
    sel_packages,      \* the requested names, lower-cased by main()
    sel_all_packages,  \* args.all_packages
    sel_result,        \* what select_packages returned (history)
    spc,               \* whether select_packages has been called
    \* ---- download() and download_url ----
    dl_selected,       \* the selection handed to download()
    dl_md5,            \* the selected packages whose manifest section has an md5 option
    dl_files,          \* package -> its file in the download path
    dl_index,          \* the package the loop of download() has come to
    dl_filename,       \* the local filename of download(), "unbound" before line 618
    retries,           \* the local retries of download_url
    dl_call,           \* the last step of download() or download_url, and what it did (history)
    exc,               \* the exception that is propagating, "" when none is
    exit_status,       \* the exit status of the script, -1 while it runs
    dpc,               \* how far the run has come
    \* ---- main() from line 879 on: the loop over the selected versions ----
    args_versions,     \* args.versions, the version tokens of the command line
    args_package,      \* args.package, lower-cased by main() (line 790)
    args_keep,         \* args.keep
    is_root,           \* os.getuid() == 0 (line 784)
    run_versions,      \* the selected versions the loop of line 908 has not taken yet
    store,             \* the download directory: each version's directory and its entries
    run_index,         \* how many packages of the version download() is through with
    prompts,           \* how often getpass has asked for the password
    events,            \* the prompts, download requests, install() calls and clean-ups so far (history)
    run_raised,        \* the error or exception that ended the run
    rpc                \* how far main() has come with the versions

install_vars == <<fs, fs0, installs, version, selected, downloaded, operation, pc,
                  moved_unity_to, moved_unity_from, install_error, invoked, outcome>>

version_vars == <<arg_version, all_versions, sorted_versions, selection, vpc>>

text_vars == <<text_a, text_b, text_c, presult, ppc>>

cache_vars == <<cache, self_sorted_versions, cache_file, now, runs, cpc, last_call>>

ini_vars == <<ini_files, args_update, ini_todo, fetched, ini_call, ipc>>

select_vars == <<sel_config, sel_packages, sel_all_packages, sel_result, spc>>

download_vars == <<dl_selected, dl_md5, dl_files, dl_index, dl_filename, retries, dl_call, exc, exit_status, dpc>>

run_vars == <<args_versions, args_package, args_keep, is_root, run_versions, store, run_index, prompts, events, run_raised, rpc>>

\* what install() leaves alone, and what the version selection leaves alone
not_install_vars == <<version_vars, text_vars, cache_vars, ini_vars, select_vars, download_vars, run_vars>>

not_version_vars == <<install_vars, text_vars, cache_vars, ini_vars, select_vars, download_vars, run_vars>>

not_text_vars == <<install_vars, version_vars, cache_vars, ini_vars, select_vars, download_vars, run_vars>>

not_cache_vars == <<install_vars, version_vars, text_vars, ini_vars, select_vars, download_vars, run_vars>>

not_ini_vars == <<install_vars, version_vars, text_vars, select_vars, download_vars, run_vars>>

not_select_vars == <<install_vars, version_vars, text_vars, cache_vars, ini_vars, download_vars, run_vars>>

not_download_vars == <<install_vars, version_vars, text_vars, cache_vars, ini_vars, select_vars, run_vars>>

not_run_vars == <<install_vars, version_vars, text_vars, cache_vars, ini_vars, select_vars, download_vars>>

vars == <<install_vars, version_vars, text_vars, cache_vars, ini_vars, select_vars, download_vars, run_vars>>

-----------------------------------------------------------------------------
(* Bounds *)

\* the longest list of --package names
MaxRequests == 2

\* the largest number of candidate versions
MaxPool == 4

MaxText == 3

MaxRuns == 2

\* the size of a package file in bytes, as its manifest section gives it
FileSize == 2

\* the longest list of version tokens on the command line
MaxTokens == 2

-----------------------------------------------------------------------------
(* Packages and select_packages *)

None == "None"

\* config.sections(): the manifest's packages, in manifest order
available == <<"Mono", "Unity", "Documentation">>

\* config.getboolean(pkg, 'install')
install_flag(pkg) == pkg \in {"Mono", "Unity"}

\* str.lower() on the names that occur
lower(s) ==
    CASE s = "Unity" -> "unity"
      [] s = "Mono" -> "mono"
      [] s = "Documentation" -> "documentation"
      [] OTHER -> s

\* the names a user may pass with --package, lower-cased by main()
RequestNames == {"unity", "mono", "ghost"}

RECURSIVE SeqsUpTo(_, _)
SeqsUpTo(S, n) ==
    IF n = 0 THEN {<<>>}
    ELSE LET shorter == SeqsUpTo(S, n - 1)
         IN  shorter \cup {Append(s, x) : s \in {t \in shorter : Len(t) = n - 1}, x \in S}

Range(s) == {s[i] : i \in 1..Len(s)}

\* the manifest of the version that install() is called for: a config is the
\* list of its sections, each with its options
UnityManifest ==
    [i \in 1..Len(available) |->
        [section |-> available[i], install |-> install_flag(available[i])]]

\* config.sections(): the section names in the order of the manifest
sections(config) == [i \in 1..Len(config) |-> config[i].section]

\* [x for x in available if config.getboolean(x, 'install')]
RECURSIVE FilterInstall(_)
FilterInstall(config) ==
    IF config = <<>> THEN <<>>
    ELSE IF Head(config).install THEN <<Head(config).section>> \o FilterInstall(Tail(config))
         ELSE FilterInstall(Tail(config))

\* list.remove(x): removes the first occurrence
RECURSIVE RemoveFirst(_, _)
RemoveFirst(s, x) ==
    IF s = <<>> THEN <<>>
    ELSE IF Head(s) = x THEN Tail(s)
         ELSE <<Head(s)>> \o RemoveFirst(Tail(s), x)

\* lines 586-588: lower_to_upper[name], the last section of the manifest whose
\* lower-cased name is name
lower_to_upper(config, name) ==
    LET hits == {i \in 1..Len(config) : lower(config[i].section) = name}
    IN  config[CHOOSE i \in hits : \A j \in hits : j <= i].section

\* lines 590-595: the loop over the requested names, selected being the list so
\* far. The warning of line 595 formats the name version, which is bound neither
\* in select_packages nor at module level (it is a local of main()), so the
\* statement raises NameError.
RECURSIVE MatchRequests(_, _, _)
MatchRequests(config, packages, sel) ==
    IF packages = <<>> THEN [raised |-> "", selected |-> sel]
    ELSE IF \E i \in 1..Len(config) : lower(config[i].section) = lower(Head(packages))
         THEN MatchRequests(config, Tail(packages),
                            Append(sel, lower_to_upper(config, lower(Head(packages)))))
         ELSE [raised |-> "NameError", selected |-> sel]

UnityFirst_Keep(sel) == sel

\* lines 599-601: the final step of select_packages: the main package goes first
UnityFirst(sel) ==
    IF "Unity" \in Range(sel) THEN <<"Unity">> \o RemoveFirst(sel, "Unity") ELSE sel

\* lines 575-596: the list called selected before the main package is moved
BeforeMove(config, packages, all_packages) ==
    IF Len(packages) = 0
    THEN [raised |-> "",
          selected |-> IF all_packages THEN sections(config) ELSE FilterInstall(config)]
    ELSE MatchRequests(config, packages, <<>>)

\* lines 574-603: select_packages(config, packages), with args.all_packages
select_packages(config, packages, all_packages) ==
    LET before == BeforeMove(config, packages, all_packages)
    IN  IF before.raised # "" THEN [raised |-> before.raised, selected |-> <<>>]
        ELSE [raised |-> "", selected |-> UnityFirst(before.selected)]

-----------------------------------------------------------------------------
(* Version handling: a version string is a sequence of characters *)

Digits == {"0", "1", "2", "3", "4", "5", "6", "7", "8", "9"}

\* the characters \w matches, among those that occur
WordChars == Digits \cup {"a", "b", "f", "p", "x", "_"}

DigitValue(c) ==
    CASE c = "0" -> 0 [] c = "1" -> 1 [] c = "2" -> 2 [] c = "3" -> 3
      [] c = "4" -> 4 [] c = "5" -> 5 [] c = "6" -> 6 [] c = "7" -> 7
      [] c = "8" -> 8 [] c = "9" -> 9

\* a group of VERSION_RE that did not take part in the match
NoneField == -1

RELEASE_LETTERS_KNOWN == {"f", "p", "b", "a"}

RELEASE_LETTER_STRENGTH_ByLetter(letter) ==
    CASE letter = "a" -> 1 [] letter = "b" -> 2 [] letter = "f" -> 3 [] letter = "p" -> 4

RELEASE_LETTER_STRENGTH(letter) ==
    CASE letter = "f" -> 1 [] letter = "p" -> 2 [] letter = "b" -> 3 [] letter = "a" -> 4

DefaultStrength_Patch == RELEASE_LETTER_STRENGTH("p")

\* lines 375-376: the stage of a version written without a release letter
DefaultStrength == RELEASE_LETTER_STRENGTH("f")

\* (\d+) from position i: the first position at or after i that holds no digit
RECURSIVE DigitsEnd(_, _)
DigitsEnd(s, i) ==
    IF i <= Len(s) /\ s[i] \in Digits THEN DigitsEnd(s, i + 1) ELSE i

\* int() of the digits s[i..j]
RECURSIVE ToInt(_, _, _)
ToInt(s, i, j) ==
    IF j < i THEN 0 ELSE 10 * ToInt(s, i, j - 1) + DigitValue(s[j])

\* re.match(VERSION_RE, s): each (\d+) takes every digit there is, and each
\* optional group is entered when its first character is there
MatchVersion(s) ==
    LET n == Len(s)
        e1 == DigitsEnd(s, 1)
        hasMinor == e1 + 1 <= n /\ s[e1] = "." /\ s[e1 + 1] \in Digits
        e2 == IF hasMinor THEN DigitsEnd(s, e1 + 1) ELSE e1
        hasPatch == hasMinor /\ e2 + 1 <= n /\ s[e2] = "." /\ s[e2 + 1] \in Digits
        e3 == IF hasPatch THEN DigitsEnd(s, e2 + 1) ELSE e2
        hasLetter == e3 <= n /\ s[e3] \in WordChars
        e4 == IF hasLetter THEN DigitsEnd(s, e3 + 1) ELSE e3
    IN  [matched |-> e4 = n + 1,
         major |-> IF e1 > 1 THEN ToInt(s, 1, e1 - 1) ELSE NoneField,
         minor |-> IF hasMinor THEN ToInt(s, e1 + 1, e2 - 1) ELSE NoneField,
         patch |-> IF hasPatch THEN ToInt(s, e2 + 1, e3 - 1) ELSE NoneField,
         letter |-> IF hasLetter THEN s[e3] ELSE "",
         number |-> IF hasLetter /\ e4 > e3 + 1 THEN ToInt(s, e3 + 1, e4 - 1) ELSE NoneField]

parse_version_AnyLetter(s) ==
    LET m == MatchVersion(s)
    IN  IF ~m.matched THEN [error |-> "Format", parts |-> <<>>]
        ELSE [error |-> "",
              parts |-> <<m.major, m.minor, m.patch,
                          IF m.letter \in RELEASE_LETTERS_KNOWN
                          THEN RELEASE_LETTER_STRENGTH(m.letter)
                          ELSE DefaultStrength,
                          m.number>>]

\* parse_version(version): the five parts, or the error it stops the run with
parse_version(s) ==
    LET m == MatchVersion(s)
    IN  IF ~m.matched THEN [error |-> "Format", parts |-> <<>>]
        ELSE IF m.letter # "" /\ m.letter \notin RELEASE_LETTERS_KNOWN
        THEN [error |-> "UnknownLetter", parts |-> <<>>]
        ELSE [error |-> "",
              parts |-> <<m.major, m.minor, m.patch,
                          IF m.letter # "" THEN RELEASE_LETTER_STRENGTH(m.letter)
                          ELSE DefaultStrength,
                          m.number>>]

\* cmp() of two lists of the same length; None sorts below every number
RECURSIVE cmp(_, _)
cmp(a, b) ==
    IF a = <<>> THEN 0
    ELSE IF Head(a) < Head(b) THEN -1
    ELSE IF Head(a) > Head(b) THEN 1
    ELSE cmp(Tail(a), Tail(b))

compare_versions(one, two) == cmp(parse_version(one).parts, parse_version(two).parts)

\* str() of a number that is not negative
RECURSIVE ToStr(_)
ToStr(n) ==
    LET last == CHOOSE c \in Digits : DigitValue(c) = n % 10
    IN  IF n < 10 THEN <<last>> ELSE ToStr(n \div 10) \o <<last>>

\* lines 390-395: a part that is None is written as x
FormatPart(x) == IF x = NoneField THEN <<"x">> ELSE ToStr(x)

\* lines 385-388: the release letter of a strength, x for None
FormatLetter(strength) ==
    IF strength = NoneField THEN "x"
    ELSE CHOOSE letter \in RELEASE_LETTERS_KNOWN : RELEASE_LETTER_STRENGTH(letter) = strength

version_string_StrengthAsNumber(parts) ==
    FormatPart(parts[1]) \o <<".">> \o FormatPart(parts[2]) \o <<".">>
        \o FormatPart(parts[3]) \o FormatPart(parts[4]) \o FormatPart(parts[5])

\* version_string(parts): '%s.%s.%s%s%s'
version_string(parts) ==
    FormatPart(parts[1]) \o <<".">> \o FormatPart(parts[2]) \o <<".">>
        \o FormatPart(parts[3]) \o <<FormatLetter(parts[4])>> \o FormatPart(parts[5])

input_matches_version_AnyStage(input_version, match_with) ==
    \A i \in {1, 2, 3, 5} :
        \/ input_version[i] = NoneField
        \/ match_with[i] = NoneField
        \/ input_version[i] = match_with[i]

\* input_matches_version: False at the first part that rules the candidate out
input_matches_version(input_version, match_with) ==
    \A i \in 1..5 :
        \/ input_version[i] = NoneField
        \/ match_with[i] = NoneField
        \/ IF i = 4 THEN ~(input_version[i] < match_with[i])
           ELSE input_version[i] = match_with[i]

\* sorted(list, compare_versions): a stable sort
RECURSIVE InsertSorted(_, _)
InsertSorted(sorted, x) ==
    IF sorted = <<>> THEN <<x>>
    ELSE IF compare_versions(Head(sorted), x) > 0 THEN <<x>> \o sorted
    ELSE <<Head(sorted)>> \o InsertSorted(Tail(sorted), x)

RECURSIVE Sorted(_)
Sorted(list) ==
    IF list = <<>> THEN <<>>
    ELSE InsertSorted(Sorted(SubSeq(list, 1, Len(list) - 1)), list[Len(list)])

NoSelection == [error |-> "", version |-> <<>>, tried |-> <<>>]

\* the loop of select_version from index i downwards
RECURSIVE ScanDown(_, _, _, _)
ScanDown(input_version, sv, i, tried) ==
    IF i = 0 THEN [error |-> "NoMatch", version |-> <<>>, tried |-> tried]
    ELSE LET hit == input_matches_version(input_version, parse_version(sv[i]).parts)
             seen == Append(tried, [version |-> sv[i], matched |-> hit])
         IN  IF hit THEN [error |-> "", version |-> sv[i], tried |-> seen]
             ELSE ScanDown(input_version, sv, i - 1, seen)

RECURSIVE ScanUp(_, _, _, _)
ScanUp(input_version, sv, i, tried) ==
    IF i > Len(sv) THEN [error |-> "NoMatch", version |-> <<>>, tried |-> tried]
    ELSE LET hit == input_matches_version(input_version, parse_version(sv[i]).parts)
             seen == Append(tried, [version |-> sv[i], matched |-> hit])
         IN  IF hit THEN [error |-> "", version |-> sv[i], tried |-> seen]
             ELSE ScanUp(input_version, sv, i + 1, seen)

select_version_LowestFirst(v, sv) ==
    LET input_version == parse_version(v)
    IN  IF input_version.error # ""
        THEN [error |-> input_version.error, version |-> <<>>, tried |-> <<>>]
        ELSE ScanUp(input_version.parts, sv, 1, <<>>)

\* select_version(version, sorted_versions): the last candidate that matches
select_version(v, sv) ==
    LET input_version == parse_version(v)
    IN  IF input_version.error # ""
        THEN [error |-> input_version.error, version |-> <<>>, tried |-> <<>>]
        ELSE ScanDown(input_version.parts, sv, Len(sv), <<>>)

\* the version strings in use
V530f1 == <<"5", ".", "3", ".", "0", "f", "1">>
V531f1 == <<"5", ".", "3", ".", "1", "f", "1">>
V532p1 == <<"5", ".", "3", ".", "2", "p", "1">>
V535b1 == <<"5", ".", "3", ".", "5", "b", "1">>
V540a1 == <<"5", ".", "4", ".", "0", "a", "1">>

\* complete versions, as UNITY_DOWNLOADS_RE and UNITY_INI_RE take them from the
\* download pages
Candidates == {V530f1, V531f1, V532p1, V535b1, V540a1}

\* what a user may type
InputSpecs ==
    {<<"5", ".", "3">>, <<"5", ".", "3", ".", "5", "b">>, <<"5">>, <<"5", "a">>,
     <<"5", ".", "3", "p">>, <<"5", ".", "4">>, <<"5", ".", "3", ".", "2", "p", "1">>,
     <<"5", ".", "3", ".", "1">>, <<"4", ".", "6">>, <<"5", ".", "3", "b", "1">>,
     <<"5", ".", "4", ".", "0", "a">>, <<"0", "5", ".", "3", ".", "0", "1", "f">>,
     <<"b">>}

ExamplePool == <<V530f1, V531f1, V532p1, V535b1>>

-----------------------------------------------------------------------------
(* The version cache: self.cache is a dict of partitions, each a dict from
   version to base url, and of the saved default packages *)

CACHE_LIFETIME == 60 * 60 * 24

\* the versions the download pages name
CatVersions == {V531f1, V532p1, V535b1, V540a1}

\* the version the discovered urls name
DiscoverVersions == {V531f1}

\* the base url the download pages give, and the one a discovered url gives
WebURL == "https://download.unity3d.com/0123456789ab/"

MirrorURL == "https://beta.unity3d.com/ba9876543210/"

\* utcnow() is a number of seconds and of microseconds; a microsecond is 0 or not
Microseconds == {0, 1}

\* t.isoformat(): the text ends with the fraction of the second, unless the
\* microsecond is 0
isoformat(t) ==
    [seconds |-> t.seconds,
     fraction |-> IF t.microsecond = 0 THEN <<>> ELSE <<t.microsecond>>]

\* datetime.strptime(text, '%Y-%m-%dT%H:%M:%S.%f'): the format asks for the
\* fraction, and ValueError is raised for a text without it
strptime(text) ==
    IF text.fraction = <<>> THEN [raised |-> "ValueError", seconds |-> 0, microsecond |-> 0]
    ELSE [raised |-> "", seconds |-> text.seconds, microsecond |-> text.fraction[1]]

\* a key of self.cache that is not there; a partition that is there has present
\* set, and lastupdate is <<>> when it has no '_lastupdate'
NoPartition == [present |-> FALSE, lastupdate |-> <<>>, url |-> <<>>]

\* line 173: self.cache = {}; default_packages is <<>> when the key is not there
\* (set_default_packages never stores an empty list)
EmptyCache ==
    [release |-> NoPartition, patch |-> NoPartition, beta |-> NoPartition,
     discovered |-> NoPartition, default_packages |-> <<>>]

NoFile == [exists |-> FALSE, data |-> EmptyCache]

\* lines 178-185: json.loads gives back the dict that json.dumps was given
load(file, c) == IF file.exists THEN file.data ELSE c

\* lines 252-255
save(c) == [exists |-> TRUE, data |-> c]

\* lines 187-192: is_outdated(cache) at the time t: "True", "False", or the
\* exception that strptime raises
is_outdated(part, t) ==
    IF ~part.present \/ part.lastupdate = <<>> THEN "True"
    ELSE LET lastupdate == strptime(part.lastupdate[1])
             seconds == t.seconds - lastupdate.seconds
         IN  IF lastupdate.raised # "" THEN lastupdate.raised
             ELSE IF \/ seconds > CACHE_LIFETIME
                     \/ seconds = CACHE_LIFETIME /\ t.microsecond > lastupdate.microsecond
             THEN "True"
             ELSE "False"

\* lines 203, 210, 217: the stage from which on update() looks at the partition
PartitionStrength(p) ==
    CASE p = "release" -> 1 [] p = "patch" -> 2 [] p = "beta" -> 3

\* lines 203, 210, 217: the condition under which update() loads the partition:
\* "True", "False", or the exception raised while it is evaluated
Eligible(c, p, stage, force, t) ==
    IF RELEASE_LETTER_STRENGTH(stage) < PartitionStrength(p) THEN "False"
    ELSE IF force THEN "True"
    ELSE is_outdated(c[p], t)

Emptied_KeepOld(old, t) ==
    [present |-> TRUE, lastupdate |-> <<isoformat(t)>>, url |-> old.url]

\* lines 205-206: self.cache[name] = {} and its '_lastupdate'
Emptied(old, t) == [present |-> TRUE, lastupdate |-> <<isoformat(t)>>, url |-> <<>>]

\* lines 248-249: unity_versions[match[1]] = match[0] for the matches of a page
Parsed_Into(part, found) ==
    [part EXCEPT !.url = [v \in DOMAIN part.url \cup found |->
                             IF v \in found THEN WebURL ELSE part.url[v]]]

\* what a fetch of a download page gives: an exception, or the versions found
PageFailed == [ok |-> FALSE, found |-> {}]

PageOutcomes(offer) == {PageFailed} \cup {[ok |-> TRUE, found |-> S] : S \in SUBSET offer}

\* the versions the release page and the patch page can offer
Offer(p) == CASE p = "release" -> {V531f1} [] p = "patch" -> {V532p1}

\* the beta versions the beta index page can name, as sorted() orders them
BetaIds == <<V535b1, V540a1>>

\* lines 235-237: the pages of the beta versions, until one cannot be fetched
RECURSIVE LoadBetaPages(_, _, _, _)
LoadBetaPages(ids, index, pages, part) ==
    IF ids = <<>> THEN [failed |-> FALSE, part |-> part]
    ELSE IF Head(ids) \notin index THEN LoadBetaPages(Tail(ids), index, pages, part)
    ELSE IF ~pages[Head(ids)].ok THEN [failed |-> TRUE, part |-> part]
    ELSE LoadBetaPages(Tail(ids), index, pages, Parsed_Into(part, pages[Head(ids)].found))

\* what a discovered url gives: whether UNITY_INI_RE matches, and its groups
UrlNoMatch == [match |-> FALSE, baseurl |-> "", version |-> <<>>]

DiscoverURLs == {UrlNoMatch} \cup {[match |-> TRUE, baseurl |-> MirrorURL, version |-> v] : v \in DiscoverVersions}

\* line 272: urlopen(ini_url) returns, or raises one of the two errors caught
ProbeOutcomes == {"ok", "HTTPError", "URLError"}

add_Unprobed(c, url, probe) ==
    IF ~url.match THEN [cache |-> c, changed |-> FALSE, version |-> <<>>]
    ELSE [cache |-> [c EXCEPT !.discovered =
                        [present |-> TRUE, lastupdate |-> c.discovered.lastupdate,
                         url |-> [v \in DOMAIN c.discovered.url \cup {url.version} |->
                                     IF v = url.version THEN url.baseurl
                                     ELSE c.discovered.url[v]]]],
          changed |-> TRUE, version |-> url.version]

\* lines 257-286: add(url); version is <<>> and changed is FALSE when it returns None
add(c, url, probe) ==
    IF ~url.match \/ probe # "ok" THEN [cache |-> c, changed |-> FALSE, version |-> <<>>]
    ELSE [cache |-> [c EXCEPT !.discovered =
                        [present |-> TRUE, lastupdate |-> c.discovered.lastupdate,
                         url |-> [v \in DOMAIN c.discovered.url \cup {url.version} |->
                                     IF v = url.version THEN url.baseurl
                                     ELSE c.discovered.url[v]]]],
          changed |-> TRUE, version |-> url.version]

\* lines 288-295: remove(version); the warning of line 290 formats the name
\* versions, which is bound nowhere, so the statement raises NameError
remove(c, v) ==
    IF ~c.discovered.present \/ v \notin DOMAIN c.discovered.url
    THEN [cache |-> c, changed |-> FALSE, raised |-> "NameError", result |-> FALSE]
    ELSE [cache |-> [c EXCEPT !.discovered.url =
                        [w \in DOMAIN c.discovered.url \ {v} |-> c.discovered.url[w]]],
          changed |-> TRUE, raised |-> "", result |-> TRUE]

\* lines 297-307: get_baseurl(version); self.cache[name] raises KeyError when the
\* partition is not there; url is "None" when the method returns None
get_baseurl(c, v) ==
    IF c.discovered.present /\ v \in DOMAIN c.discovered.url
    THEN [raised |-> "", url |-> c.discovered.url[v]]
    ELSE IF ~c.release.present THEN [raised |-> "KeyError", url |-> None]
    ELSE IF v \in DOMAIN c.release.url THEN [raised |-> "", url |-> c.release.url[v]]
    ELSE IF ~c.patch.present THEN [raised |-> "KeyError", url |-> None]
    ELSE IF v \in DOMAIN c.patch.url THEN [raised |-> "", url |-> c.patch.url[v]]
    ELSE IF ~c.beta.present THEN [raised |-> "KeyError", url |-> None]
    ELSE IF v \in DOMAIN c.beta.url THEN [raised |-> "", url |-> c.beta.url[v]]
    ELSE [raised |-> "", url |-> None]

\* dict.keys() without the keys that start with '_': the versions in some order
\* (the order does not show after sorting, as no two of CatVersions compare equal)
RECURSIVE KeysOf(_)
KeysOf(S) ==
    IF S = {} THEN <<>>
    ELSE LET v == CHOOSE x \in S : TRUE IN <<v>> \o KeysOf(S \ {v})

all_versions_Distinct(c) ==
    KeysOf(DOMAIN c.discovered.url \cup DOMAIN c.release.url
               \cup DOMAIN c.patch.url \cup DOMAIN c.beta.url)

\* lines 311-320: the keys of the partitions that are there, one list after the other
all_versions_of(c) ==
    KeysOf(DOMAIN c.discovered.url) \o KeysOf(DOMAIN c.release.url)
        \o KeysOf(DOMAIN c.patch.url) \o KeysOf(DOMAIN c.beta.url)

\* self.sorted_versions = None
NoList == [set |-> FALSE, list |-> <<>>]

Invalidate_Keep(memo) == memo

\* lines 185, 226, 285, 294: self.sorted_versions = None
Invalidate(memo) == NoList

get_sorted_versions_Unsorted(c, memo) ==
    IF memo.set THEN memo.list ELSE all_versions_of(c)

\* lines 309-323: get_sorted_versions(): the memoized list when there is one
get_sorted_versions(c, memo) ==
    IF memo.set THEN memo.list ELSE Sorted(all_versions_of(c))

\* what --save can be given with: no package, or some
PackageLists == {<<>>, <<"mono">>}

-----------------------------------------------------------------------------
(* The cached manifests: load_ini keeps unity-VERSION-osx.ini in script_dir *)

\* the versions whose manifests are asked for
IniVersions == {V531f1, V532p1}

\* line 65 and 557: UNITY_INI_NAME % version
UNITY_INI_NAME(v) == [prefix |-> "unity-", version |-> v, suffix |-> "-osx.ini"]

\* line 561: url = baseurl + ini_name
IniURL(baseurl, v) == [baseurl |-> baseurl, name |-> UNITY_INI_NAME(v)]

Section(name) == [kind |-> "section", name |-> name, value |-> ""]

Option(name, value) == [kind |-> "option", name |-> name, value |-> value]

\* the texts the server gives for a manifest: a text is its lines, and the
\* server may give another text in a later run
IniTexts ==
    {<<Section("Unity"), Option("install", "true"), Section("Mono"), Option("install", "false")>>,
     <<Section("Unity"), Option("install", "true")>>}

\* a file that exists and holds nothing
EmptyText == <<>>

\* no file of that name
NoIni == [isfile |-> FALSE, text |-> EmptyText]

\* lines 570-571: ConfigParser.read: the sections in the order of the text, each
\* with the options that follow its header
RECURSIVE ConfigParser_read(_, _)
ConfigParser_read(lines, config) ==
    IF lines = <<>> THEN config
    ELSE LET line == Head(lines)
         IN  IF line.kind = "section"
             THEN ConfigParser_read(Tail(lines),
                                    Append(config, [section |-> line.name, options |-> <<>>]))
             ELSE ConfigParser_read(Tail(lines),
                                    [config EXCEPT ![Len(config)].options =
                                        Append(@, <<line.name, line.value>>)])

\* what urlopen(url) and response.read() do: the text arrives, or urlopen
\* raises, or the connection breaks while the response is read
FetchOutcomes ==
    {[raised |-> "urlopen", text |-> EmptyText], [raised |-> "read", text |-> EmptyText]}
        \cup {[raised |-> "", text |-> t] : t \in IniTexts}

NoFetch == [baseurl |-> "", name |-> UNITY_INI_NAME(<<>>)]

NoConfig == <<>>

\* lines 552-572: load_ini(version) with the files of script_dir and what the
\* network does when asked. The result names the exception or error() that ended
\* the call, the url requested (NoFetch when none was), the files afterwards and
\* the config returned. open(ini_path, 'w') of line 567 creates the file before
\* response.read() of line 568 is evaluated.
load_ini(c, files, v, net) ==
    LET baseurl == get_baseurl(c, v)
        url == IniURL(baseurl.url, v)
    IN  IF baseurl.raised # ""
        THEN [raised |-> baseurl.raised, url |-> NoFetch, files |-> files, config |-> NoConfig]
        ELSE IF baseurl.url = None
        THEN [raised |-> "error", url |-> NoFetch, files |-> files, config |-> NoConfig]
        ELSE IF files[v].isfile
        THEN [raised |-> "", url |-> NoFetch, files |-> files,
              config |-> ConfigParser_read(files[v].text, <<>>)]
        ELSE IF net.raised = "urlopen"
        THEN [raised |-> "error", url |-> url, files |-> files, config |-> NoConfig]
        ELSE IF net.raised = "read"
        THEN [raised |-> "Exception", url |-> url,
              files |-> [files EXCEPT ![v] = [isfile |-> TRUE, text |-> EmptyText]],
              config |-> NoConfig]
        ELSE [raised |-> "", url |-> url,
              files |-> [files EXCEPT ![v] = [isfile |-> TRUE, text |-> net.text]],
              config |-> ConfigParser_read(net.text, <<>>)]

\* the catalogs the manifests are asked with: after update('f') on a new
\* cache only the release partition is there; after update('b') all three are
Catalogs ==
    LET release == [present |-> TRUE, lastupdate |-> <<>>, url |-> (V531f1 :> WebURL)]
        patch == [present |-> TRUE, lastupdate |-> <<>>, url |-> (V532p1 :> WebURL)]
        beta == [present |-> TRUE, lastupdate |-> <<>>, url |-> <<>>]
    IN  {[EmptyCache EXCEPT !.release = release],
         [EmptyCache EXCEPT !.release = release, !.patch = patch, !.beta = beta]}

-----------------------------------------------------------------------------
(* download() and download_url: a file is the bytes it holds *)

DOWNLOAD_MAX_RETRIES == 3

\* the bytes of a package file as the manifest describes it: FileSize bytes,
\* and the md5 option is the digest of these bytes
TrueBytes == [i \in 1..FileSize |-> i]

\* a byte that is not the byte of the package file at its place
WrongByte == 0

\* os.path.isfile(output) is False
Missing == [isfile |-> FALSE, bytes |-> <<>>]

File(bytes) == [isfile |-> TRUE, bytes |-> bytes]

\* os.path.getsize(output) where it is called, and 0 as line 447 sets it
getsize(file) == IF file.isfile THEN Len(file.bytes) ELSE 0

\* lines 543-550: hashfile(path): two files have the same digest exactly when
\* they hold the same bytes
hashfile(file) == [md5 |-> file.bytes]

\* config.get(pkg, 'md5') of a section that has the option
md5_option == hashfile(File(TrueBytes))

\* what the download path can hold for a package when download() begins: no
\* file, a beginning of the file (of no bytes, of some, of all), a file of wrong
\* bytes (shorter than expected, or as long), and a file longer than expected
InitialFiles ==
    {Missing}
        \cup {File(SubSeq(TrueBytes, 1, k)) : k \in 0..FileSize}
        \cup {File(<<WrongByte>>), File([i \in 1..FileSize |-> WrongByte]),
              File(TrueBytes \o <<WrongByte>>)}

\* urlopen(req) raised
RequestFailed == [failed |-> TRUE, bytes |-> <<>>, read_error |-> FALSE]

\* what the server does with a request for the bytes from offset on: urlopen
\* raises; or the bytes from offset up to some place arrive, and then the
\* response ends or res.read() raises; or the server sends the whole file
\* whatever the Range header says, or wrong bytes, or more bytes than the
\* manifest gives as size
Responses(offset) ==
    {RequestFailed}
        \cup {[failed |-> FALSE, bytes |-> SubSeq(TrueBytes, offset + 1, j), read_error |-> e] :
                 j \in offset..FileSize, e \in BOOLEAN}
        \cup {[failed |-> FALSE, bytes |-> b, read_error |-> FALSE] :
                 b \in {TrueBytes,
                        [i \in 1..(FileSize - offset) |-> WrongByte],
                        SubSeq(TrueBytes, offset + 1, FileSize) \o <<WrongByte>>}}

RangeHeader_None(existing_size) == <<>>

\* lines 460-461: the Range header of the request, <<>> when there is none
RangeHeader(existing_size) ==
    IF existing_size > 0 THEN <<existing_size>> ELSE <<>>

NoRequest == [sent |-> FALSE, range |-> <<>>]

\* lines 459-463
Request(existing_size) == [sent |-> TRUE, range |-> RangeHeader(existing_size)]

ShortRead_Ignored(size, expected_size) == FALSE

\* line 482
ShortRead(size, expected_size) == size < expected_size

GiveUp_Late(r) == r > DOWNLOAD_MAX_RETRIES + 1

\* line 490
GiveUp(r) == r > DOWNLOAD_MAX_RETRIES

\* lines 445-494: one pass of the loop of download_url(url, output,
\* expected_size), r being retries and net what the server does. kind is
\* "skipped" (line 452), "bigger" (line 455), "complete" (line 485), "retry"
\* (line 494) or "error" (line 491).
attempt(file, expected_size, r, net) ==
    LET existing_size == getsize(file)
        written == File(file.bytes \o net.bytes)
        after == IF net.failed THEN file ELSE written
        raised == \/ net.failed
                  \/ net.read_error
                  \/ ShortRead(getsize(written), expected_size)
    IN  IF file.isfile /\ existing_size = expected_size
        THEN [kind |-> "skipped", request |-> NoRequest, file |-> file, retries |-> r]
        ELSE IF file.isfile /\ existing_size > expected_size
        THEN [kind |-> "bigger", request |-> NoRequest, file |-> file, retries |-> r]
        ELSE IF ~raised
        THEN [kind |-> "complete", request |-> Request(existing_size), file |-> after,
              retries |-> r]
        ELSE [kind |-> IF GiveUp(r + 1) THEN "error" ELSE "retry",
              request |-> Request(existing_size), file |-> after, retries |-> r + 1]

HashMismatch_Unchecked(has_md5, file) == FALSE

\* line 627: md5hash and hashfile(output) != md5hash
HashMismatch(has_md5, file) == has_md5 /\ hashfile(file) # md5_option

\* line 621: os.path.isfile(output) and md5hash and hashfile(output) == md5hash
AlreadyDownloaded(has_md5, file) == file.isfile /\ has_md5 /\ hashfile(file) = md5_option

\* lines 967-977: every exception that leaves main() is caught by one of the
\* three clauses (KeyboardInterrupt, SystemExit, BaseException) and none is
\* raised again, so the script runs to its end whatever e is
ExitStatus(e) == 0

\* lines 161 and 973-977: whether 'ERROR: ...' or a traceback has been printed
\* when the script ends
Diagnostic(e) == e \notin {"", "KeyboardInterrupt"}

-----------------------------------------------------------------------------
(* The Applications directory *)

Versions == {"5.3.0f1", "5.4.0f1"}

Canonical == "Unity"

\* 'Unity %s' % version
Qualified(v) == "Unity " \o v

DirNames == {Canonical, "Unity old"} \cup {Qualified(v) : v \in Versions}

\* A directory's content: ver is the CFBundleVersion of its Info.plist ("none"
\* when there is no Info.plist), id tells where the content came from (the name
\* it had at the start, or "new" when an installer created it), pkgs are the
\* packages installed into it by this call.
NoDir == [ver |-> "-", id |-> "-", pkgs |-> {}]

InitialContents(d) ==
    {NoDir} \cup {[ver |-> v, id |-> d, pkgs |-> {}] : v \in Versions \cup {"none"}}

isdir(f, d) == f[d] # NoDir

\* os.rename(src, dst) of a directory: fails when dst is an existing (non-empty)
\* directory or src is missing
CanRename(f, src, dst) == isdir(f, src) /\ ~isdir(f, dst)

Rename(f, src, dst) == [f EXCEPT ![dst] = f[src], ![src] = NoDir]

\* find_unity_installs(): the directories with an Info.plist, keyed by version;
\* when two directories hold the same version the one listed last wins
FindUnityInstalls(f) ==
    LET found == {v \in Versions : \E d \in DirNames : f[d].ver = v}
    IN  {m \in [found -> DirNames] : \A v \in found : f[m[v]].ver = v}

basename(d) == d

-----------------------------------------------------------------------------
(* install(version, path, selected)

   Besides its parameters install() reads the names installs and config. The
   model binds them to the values main() assigns under these names: installs
   to the result of find_unity_installs() (line 879), config to the manifest
   of the version (line 909), of which only the packages' file names are used. *)

\* /usr/sbin/installer -pkg package -target volume: it always writes into the
\* canonical directory, creating it when absent; the main package brings the
\* Info.plist of the target version
InstallerWrites(f, pkg, v) ==
    [f EXCEPT ![Canonical] =
        IF isdir(f, Canonical)
        THEN [@ EXCEPT !.ver = IF pkg = "Unity" THEN v ELSE @,
                       !.pkgs = @ \cup {pkg}]
        ELSE [ver |-> IF pkg = "Unity" THEN v ELSE "none", id |-> "new", pkgs |-> {pkg}]]

Precheck_NoBaseCheck(v, sel, dl, inst) ==
    IF \E i \in 1..Len(sel) : sel[i] \notin dl THEN "NotDownloaded" ELSE ""

\* lines 684-695: the checks before anything is moved; "" when they pass
Precheck(v, sel, dl, inst) ==
    IF \E i \in 1..Len(sel) : sel[i] \notin dl THEN "NotDownloaded"
    ELSE IF v \notin DOMAIN inst /\ "Unity" \notin Range(sel) THEN "MissingInstallation"
    ELSE ""

\* line 705: the versions found in the canonical directory
Lookup(inst) == {w \in DOMAIN inst : basename(inst[w]) = Canonical}

TargetIsCanonical_Never(v, inst) == FALSE

\* line 700: the canonical directory already holds the target version
TargetIsCanonical(v, inst) == v \in DOMAIN inst /\ basename(inst[v]) = Canonical

\* line 717: the target version is installed under another name
TargetIsElsewhere(v, inst) == v \in DOMAIN inst /\ basename(inst[v]) # Canonical

Conflict_Unchecked(f, to) == FALSE

\* line 710: the name the canonical directory would be moved to is taken
Conflict(f, to) == to # None /\ isdir(f, to)

\* lines 684-719: the checks, the move-aside and the move-in
Install_Prepare ==
    /\ pc = "start"
    /\ LET err == Precheck(version, selected, downloaded, installs)
           aside == ~TargetIsCanonical(version, installs) /\ isdir(fs, Canonical)
           lookup == Lookup(installs)
           to == IF aside /\ Cardinality(lookup) = 1
                 THEN Qualified(CHOOSE w \in lookup : TRUE) ELSE None
           from == IF TargetIsElsewhere(version, installs) THEN installs[version] ELSE None
           fs1 == IF to # None THEN Rename(fs, Canonical, to) ELSE fs
       IN  IF err # ""
           THEN /\ pc' = "done" /\ outcome' = err
                /\ UNCHANGED <<fs, moved_unity_to, moved_unity_from>>
           ELSE IF aside /\ Cardinality(lookup) # 1
           THEN /\ pc' = "done" /\ outcome' = "NotRecognized"
                /\ UNCHANGED <<fs, moved_unity_to, moved_unity_from>>
           ELSE IF Conflict(fs, to)
           THEN /\ pc' = "done" /\ outcome' = "Duplicate"
                /\ UNCHANGED <<fs, moved_unity_to, moved_unity_from>>
           ELSE IF from # None /\ ~CanRename(fs1, from, Canonical)
           THEN /\ pc' = "done" /\ outcome' = "OSError"
                /\ fs' = fs1 /\ moved_unity_to' = to /\ moved_unity_from' = from
           ELSE /\ pc' = "loop" /\ outcome' = outcome
                /\ moved_unity_to' = to /\ moved_unity_from' = from
                /\ fs' = IF from # None THEN Rename(fs1, from, Canonical) ELSE fs1
    /\ UNCHANGED <<fs0, installs, version, selected, downloaded, operation,
                   install_error, invoked, not_install_vars>>

LoopContinues_NoBreak(inv, sel) == Len(inv) < Len(sel)

\* line 722: the loop goes on while no installer failed and packages remain
LoopContinues(inv, sel) ==
    /\ Len(inv) < Len(sel)
    /\ \A i \in 1..Len(inv) : inv[i].rc = 0

\* line 732: subprocess.Popen(command, ...) either starts the installer or
\* raises OSError (the executable cannot be started: fork fails, sudo or
\* installer is missing)
LaunchOutcomes == {"started", "OSError"}

\* lines 722-741: one iteration: the installer runs on the next package and
\* returns rc; a failed installer may or may not have written its files. When
\* the launch raises, the exception leaves install() at once: lines 743-759
\* are not inside a finally clause.
Install_Invoke ==
    /\ pc = "loop"
    /\ LoopContinues(invoked, selected)
    /\ LET pkg == selected[Len(invoked) + 1]
       IN  \E launch \in LaunchOutcomes :
             IF launch = "OSError"
             THEN /\ pc' = "done"
                  /\ outcome' = "LaunchError"
                  /\ UNCHANGED <<fs, invoked, install_error>>
             ELSE \E rc \in {0, 1}, wrote \in BOOLEAN :
                    /\ rc = 0 => wrote
                    /\ invoked' = Append(invoked, [pkg |-> pkg, rc |-> rc])
                    /\ fs' = IF wrote THEN InstallerWrites(fs, pkg, version) ELSE fs
                    /\ install_error' = IF rc # 0 THEN <<pkg, "output">> ELSE install_error
                    /\ UNCHANGED <<pc, outcome>>
    /\ UNCHANGED <<fs0, installs, version, selected, downloaded, operation,
                   moved_unity_to, moved_unity_from, not_install_vars>>

Install_RevertFrom_Skipped ==
    /\ pc = "loop"
    /\ ~LoopContinues(invoked, selected)
    /\ pc' = "revert_to"
    /\ UNCHANGED <<fs, fs0, installs, version, selected, downloaded, operation,
                   moved_unity_to, moved_unity_from, install_error, invoked, outcome, not_install_vars>>

\* lines 744-745: the move-in is reverted
Install_RevertFrom ==
    /\ pc = "loop"
    /\ ~LoopContinues(invoked, selected)
    /\ IF moved_unity_from = None
       THEN /\ pc' = "revert_to" /\ UNCHANGED <<fs, outcome>>
       ELSE IF CanRename(fs, Canonical, moved_unity_from)
       THEN /\ pc' = "revert_to" /\ fs' = Rename(fs, Canonical, moved_unity_from)
            /\ UNCHANGED outcome
       ELSE /\ pc' = "done" /\ outcome' = "OSError" /\ UNCHANGED fs
    /\ UNCHANGED <<fs0, installs, version, selected, downloaded, operation,
                   moved_unity_to, moved_unity_from, install_error, invoked, not_install_vars>>

NewInstallPresent_Unchecked(f) == FALSE

\* line 748: the installer left a canonical directory behind
NewInstallPresent(f) == isdir(f, Canonical)

Install_RevertTo_Skipped ==
    /\ pc = "revert_to"
    /\ pc' = "raise"
    /\ UNCHANGED <<fs, fs0, installs, version, selected, downloaded, operation,
                   moved_unity_to, moved_unity_from, install_error, invoked, outcome, not_install_vars>>

\* lines 747-753: the move-aside is reverted; what the installer left in the
\* canonical directory goes to 'Unity VERSION' first
Install_RevertTo ==
    /\ pc = "revert_to"
    /\ IF moved_unity_to = None
       THEN /\ pc' = "raise" /\ UNCHANGED <<fs, outcome>>
       ELSE LET new_install_path == Qualified(version)
                keep == NewInstallPresent(fs)
                fs1 == IF keep THEN Rename(fs, Canonical, new_install_path) ELSE fs
            IN  IF keep /\ ~CanRename(fs, Canonical, new_install_path)
                THEN /\ pc' = "done" /\ outcome' = "OSError" /\ UNCHANGED fs
                ELSE IF ~CanRename(fs1, moved_unity_to, Canonical)
                THEN /\ pc' = "done" /\ outcome' = "OSError" /\ fs' = fs1
                ELSE /\ pc' = "raise" /\ fs' = Rename(fs1, moved_unity_to, Canonical)
                     /\ UNCHANGED outcome
    /\ UNCHANGED <<fs0, installs, version, selected, downloaded, operation,
                   moved_unity_to, moved_unity_from, install_error, invoked, not_install_vars>>

\* lines 755-759: the captured installer failure is raised, or install() returns
Install_Finish ==
    /\ pc = "raise"
    /\ pc' = "done"
    /\ outcome' = IF install_error # <<>> THEN "InstallError" ELSE "ok"
    /\ UNCHANGED <<fs, fs0, installs, version, selected, downloaded, operation,
                   moved_unity_to, moved_unity_from, install_error, invoked, not_install_vars>>

-----------------------------------------------------------------------------
(* The download directory and clean_up(path) *)

\* what a version's download directory may hold besides the package files that
\* download() wrote
StrayEntries == {".DS_Store", "Archive.PKG", "notes.txt"}

\* line 764: file.lower().endswith('.pkg'); the files of the packages are named
\* as in the manifest, 'Unity.pkg' and the like
endswith_pkg(file) == file = "Archive.PKG"

\* a directory of the download path: the packages whose file is in it, and
\* its other entries
NoStoreDir == [isdir |-> FALSE, pkgs |-> {}, strays |-> {}]

\* the download path (root) with the directory of each version
NoStore == [root |-> FALSE, dirs |-> [v \in Versions |-> NoStoreDir]]

Unexpected_None(dir) == {}

\* lines 763-765: the entries that are neither a .pkg file nor '.DS_Store'
Unexpected(dir) == {file \in dir.strays : ~endswith_pkg(file) /\ file # ".DS_Store"}

\* lines 761-777: clean_up(path) for the directory of version v. After
\* shutil.rmtree(path) line 771 reads the name download_to, which is a local of
\* main() (line 845) and is bound neither in clean_up nor at module level: the
\* statement raises NameError, and lines 773-777 are not reached.
clean_up(st, v) ==
    IF Unexpected(st.dirs[v]) # {}
    THEN [raised |-> "", warned |-> TRUE, store |-> st]
    ELSE [raised |-> "NameError", warned |-> FALSE,
          store |-> [st EXCEPT !.dirs[v] = NoStoreDir]]

\* line 607: os.makedirs(path) creates the directory of the version and the
\* directories above it
makedirs(st, v) ==
    IF st.dirs[v].isdir THEN st
    ELSE [root |-> TRUE, dirs |-> [st.dirs EXCEPT ![v] = [isdir |-> TRUE, pkgs |-> {}, strays |-> {}]]]

\* main(), lines 925-958: install() is entered with a non-empty selection; in
\* the combined operation every package was downloaded before, and an installed
\* version is skipped when the main package is selected
InstallIdle ==
    /\ fs = [d \in DirNames |-> NoDir]
    /\ fs0 = fs
    /\ installs = <<>>
    /\ version = ""
    /\ selected = <<>>
    /\ downloaded = {}
    /\ operation = None
    /\ pc = "idle"
    /\ moved_unity_to = None
    /\ moved_unity_from = None
    /\ install_error = <<>>
    /\ invoked = <<>>
    /\ outcome = ""

VersionIdle ==
    /\ arg_version = <<>>
    /\ all_versions = <<>>
    /\ sorted_versions = <<>>
    /\ selection = NoSelection
    /\ vpc = "idle"

TextIdle ==
    /\ text_a = <<>>
    /\ text_b = <<>>
    /\ text_c = <<>>
    /\ presult = <<>>
    /\ ppc = "idle"

CacheIdle ==
    /\ cache = EmptyCache
    /\ self_sorted_versions = NoList
    /\ cache_file = NoFile
    /\ now = [seconds |-> 0, microsecond |-> 0]
    /\ runs = 0
    /\ cpc = "idle"
    /\ last_call = [op |-> "none"]

IniIdle ==
    /\ ini_files = [v \in IniVersions |-> NoIni]
    /\ args_update = FALSE
    /\ ini_todo = {}
    /\ fetched = {}
    /\ ini_call = [op |-> "none"]
    /\ ipc = "idle"

SelectIdle ==
    /\ sel_config = <<>>
    /\ sel_packages = <<>>
    /\ sel_all_packages = FALSE
    /\ sel_result = <<>>
    /\ spc = "idle"

DownloadIdle ==
    /\ dl_selected = <<>>
    /\ dl_md5 = {}
    /\ dl_files = [pkg \in Range(available) |-> Missing]
    /\ dl_index = 0
    /\ dl_filename = "unbound"
    /\ retries = 0
    /\ dl_call = [op |-> "none"]
    /\ exc = ""
    /\ exit_status = -1
    /\ dpc = "idle"

RunIdle ==
    /\ args_versions = <<>>
    /\ args_package = <<>>
    /\ args_keep = FALSE
    /\ is_root = FALSE
    /\ run_versions = <<>>
    /\ store = NoStore
    /\ run_index = 0
    /\ prompts = 0
    /\ events = <<>>
    /\ run_raised = ""
    /\ rpc = "idle"

Init ==
    /\ VersionIdle
    /\ TextIdle
    /\ CacheIdle
    /\ IniIdle
    /\ RunIdle
    /\ DownloadIdle
    /\ SelectIdle
    /\ fs \in {f \in [DirNames -> UNION {InitialContents(d) : d \in DirNames}] :
                 \A d \in DirNames : f[d] \in InitialContents(d)}
    /\ fs0 = fs
    /\ installs \in FindUnityInstalls(fs)
    /\ version \in Versions
    /\ operation \in {None, "install"}
    /\ \E packages \in SeqsUpTo(RequestNames, MaxRequests), all_packages \in BOOLEAN :
         /\ Len(packages) > 0 => ~all_packages
         /\ select_packages(UnityManifest, packages, all_packages).raised = ""
         /\ selected = select_packages(UnityManifest, packages, all_packages).selected
    /\ Len(selected) > 0
    /\ operation = None => ~("Unity" \in Range(selected) /\ version \in DOMAIN installs)
    /\ downloaded \in IF operation = None THEN {Range(selected)}
                      ELSE {Range(selected)} \cup {Range(selected) \ {p} : p \in Range(selected)}
    /\ pc = "start"
    /\ moved_unity_to = None
    /\ moved_unity_from = None
    /\ install_error = <<>>
    /\ invoked = <<>>
    /\ outcome = ""

Next ==
    \/ Install_Prepare
    \/ Install_Invoke
    \/ Install_RevertFrom
    \/ Install_RevertTo
    \/ Install_Finish

Spec == Init /\ [][Next]_vars

-----------------------------------------------------------------------------
(* Version selection in main(): the candidates are sorted, then a version is
   selected for what the user typed *)

RECURSIVE DistinctSeqs(_, _)
DistinctSeqs(S, n) ==
    IF n = 0 THEN {<<>>}
    ELSE LET shorter == DistinctSeqs(S, n - 1)
             longest == {t \in shorter : Len(t) = n - 1}
         IN  shorter \cup UNION {{Append(s, x) : x \in S \ Range(s)} : s \in longest}

\* lines 880 and 321: sorted(..., compare_versions)
GetSortedVersions ==
    /\ vpc = "start"
    /\ sorted_versions' = Sorted(all_versions)
    /\ vpc' = "sorted"
    /\ UNCHANGED <<arg_version, all_versions, selection, not_version_vars>>

\* line 905: select_version(v, version_list)
SelectVersion ==
    /\ vpc = "sorted"
    /\ selection' = select_version(arg_version, sorted_versions)
    /\ vpc' = "done"
    /\ UNCHANGED <<arg_version, all_versions, sorted_versions, not_version_vars>>

InitVersion ==
    /\ InstallIdle
    /\ TextIdle
    /\ CacheIdle
    /\ IniIdle
    /\ RunIdle
    /\ DownloadIdle
    /\ SelectIdle
    /\ arg_version \in InputSpecs
    /\ all_versions \in DistinctSeqs(Candidates, MaxPool)
    /\ sorted_versions = <<>>
    /\ selection = NoSelection
    /\ vpc = "start"

NextVersion ==
    \/ GetSortedVersions
    \/ SelectVersion

SpecVersion == InitVersion /\ [][NextVersion]_vars

-----------------------------------------------------------------------------
(* parse_version, version_string and compare_versions applied to texts *)

\* the characters of the short texts: digits, the dot, a release letter and a
\* letter that is no release letter
TextAlphabet == {"5", "0", ".", "f", "x"}

\* a complete version whose numbers are written with leading zeros
ZeroPadded == <<"5", ".", "0", "3", ".", "1", "f", "0", "1">>

\* every short text, and the versions in use
Texts == SeqsUpTo(TextAlphabet, MaxText) \cup Candidates \cup InputSpecs \cup {ZeroPadded}

\* the texts parse_version takes
ValidTexts == {t \in Candidates \cup InputSpecs \cup SeqsUpTo(TextAlphabet, 1) :
                  parse_version(t).error = ""}

NoResult == <<>>

\* line 360-378: parse_version(text_a)
ParseVersion ==
    /\ ppc = "text"
    /\ presult' = [parsed |-> parse_version(text_a)]
    /\ ppc' = "parsed"
    /\ UNCHANGED <<text_a, text_b, text_c, not_text_vars>>

\* version_string of what parse_version returned, handed to parse_version and to
\* compare_versions again
FormatVersion ==
    /\ ppc = "parsed"
    /\ presult.parsed.error = ""
    /\ LET formatted == version_string(presult.parsed.parts)
           reparsed == parse_version(formatted)
       IN  presult' = [parsed |-> presult.parsed,
                       formatted |-> formatted,
                       reparsed |-> reparsed,
                       compared |-> IF reparsed.error = ""
                                    THEN compare_versions(formatted, text_a)
                                    ELSE NoneField]
    /\ ppc' = "formatted"
    /\ UNCHANGED <<text_a, text_b, text_c, not_text_vars>>

InitText ==
    /\ InstallIdle
    /\ VersionIdle
    /\ CacheIdle
    /\ IniIdle
    /\ RunIdle
    /\ DownloadIdle
    /\ SelectIdle
    /\ text_a \in Texts
    /\ text_b = <<>>
    /\ text_c = <<>>
    /\ presult = NoResult
    /\ ppc = "text"

NextText ==
    \/ ParseVersion
    \/ FormatVersion

SpecText == InitText /\ [][NextText]_vars

\* line 400: compare_versions on every pair of three versions
CompareVersions ==
    /\ ppc = "texts"
    /\ presult' = [ab |-> compare_versions(text_a, text_b),
                   ba |-> compare_versions(text_b, text_a),
                   bc |-> compare_versions(text_b, text_c),
                   ac |-> compare_versions(text_a, text_c),
                   aa |-> compare_versions(text_a, text_a)]
    /\ ppc' = "compared"
    /\ UNCHANGED <<text_a, text_b, text_c, not_text_vars>>

InitCompare ==
    /\ InstallIdle
    /\ VersionIdle
    /\ CacheIdle
    /\ IniIdle
    /\ RunIdle
    /\ DownloadIdle
    /\ SelectIdle
    /\ text_a \in ValidTexts
    /\ text_b \in ValidTexts
    /\ text_c \in ValidTexts
    /\ presult = NoResult
    /\ ppc = "texts"

NextCompare == CompareVersions

SpecCompare == InitCompare /\ [][NextCompare]_vars

-----------------------------------------------------------------------------
(* main() and the version cache: cpc is the place main() has come to. It is
   "start" after the cache was built and loaded (line 782), "forget" and
   "discover" inside the loops of lines 829-837, "defaults" after line 838,
   "update" after line 859, "release", "patch", "beta" and "save" inside
   update(), "versions" after update(), "baseurl" from line 903 on, and
   "exited" after an error or an exception ended the run. *)

\* line 831: cache.remove(version) for the next version of args.forget
Remove(v) ==
    /\ cpc \in {"start", "forget"}
    /\ LET r == remove(cache, v)
       IN  /\ cache' = r.cache
           /\ self_sorted_versions' = IF r.changed THEN Invalidate(self_sorted_versions)
                                   ELSE self_sorted_versions
           /\ cpc' = IF r.raised # "" THEN "exited" ELSE "forget"
           /\ last_call' = [op |-> "remove", version |-> v, raised |-> r.raised,
                            result |-> r.result]
    /\ UNCHANGED <<cache_file, now, runs, not_cache_vars>>

\* line 835: cache.add(url) for the next url of args.discover
Add(url, probe) ==
    /\ cpc \in {"start", "forget", "discover"}
    /\ LET r == add(cache, url, probe)
       IN  /\ cache' = r.cache
           /\ self_sorted_versions' = IF r.changed THEN Invalidate(self_sorted_versions)
                                   ELSE self_sorted_versions
           /\ last_call' = [op |-> "add", url |-> url, probe |-> probe,
                            none |-> ~r.changed, version |-> r.version]
    /\ cpc' = "discover"
    /\ UNCHANGED <<cache_file, now, runs, not_cache_vars>>

\* line 838: cache.save() after the two loops
BatchSave ==
    /\ cpc \in {"forget", "discover"}
    /\ cache_file' = save(cache)
    /\ cpc' = "defaults"
    /\ last_call' = [op |-> "save"]
    /\ UNCHANGED <<cache, self_sorted_versions, now, runs, not_cache_vars>>

\* lines 852-859 and 344-349: cache.set_default_packages(packages) under --save;
\* del raises KeyError when the key is not there
SetDefaultPackages(list) ==
    /\ cpc \in {"start", "defaults"}
    /\ IF list = <<>> /\ cache.default_packages = <<>>
       THEN /\ cpc' = "exited"
            /\ last_call' = [op |-> "set_default_packages", list |-> list, raised |-> "KeyError"]
            /\ UNCHANGED <<cache, cache_file>>
       ELSE /\ cache' = [cache EXCEPT !.default_packages = list]
            /\ cache_file' = save(cache')
            /\ cpc' = "update"
            /\ last_call' = [op |-> "set_default_packages", list |-> list, raised |-> ""]
    /\ UNCHANGED <<self_sorted_versions, now, runs, not_cache_vars>>

\* the stages update() is asked for
UpdateStages == {"f", "p", "b"}

NoneFound == [release |-> {}, patch |-> {}, beta |-> {}]

\* lines 870, 891 and 194-200: cache.update(stage, force = args.update) is called
UpdateBegin(stage, force) ==
    /\ cpc \in {"start", "defaults", "update"}
    /\ cpc' = "release"
    /\ last_call' = [op |-> "update", stage |-> stage, force |-> force, scraped |-> {},
                     found |-> NoneFound, failed |-> FALSE, raised |-> "", done |-> FALSE]
    /\ UNCHANGED <<cache, self_sorted_versions, cache_file, now, runs, not_cache_vars>>

AfterFetch_Continue(ok, next) == next

\* lines 244-245, 231-232 and 160-164: error() ends the run when urlopen raised
AfterFetch(ok, next) == IF ok THEN next ELSE "exited"

\* the condition of lines 203, 210, 217 raised an exception: the run ends
UpdateRaised(exception) ==
    /\ cpc' = "exited"
    /\ last_call' = [last_call EXCEPT !.raised = exception]
    /\ UNCHANGED cache

\* the condition of lines 203, 210, 217 is False: on to the next partition
UpdateSkipped(next) ==
    /\ cpc' = next
    /\ UNCHANGED <<cache, last_call>>

\* lines 203-208 and 210-215 with 241-250: the partition is emptied, stamped and
\* filled from its page, and error() ends the run when the page cannot be fetched
UpdateFrom(p, next) ==
    /\ cpc = p
    /\ LET due == Eligible(cache, p, last_call.stage, last_call.force, now)
       IN  CASE due = "True" ->
                    \E page \in PageOutcomes(Offer(p)) :
                        /\ cache' = [cache EXCEPT
                                         ![p] = Parsed_Into(Emptied(@, now), page.found)]
                        /\ cpc' = AfterFetch(page.ok, next)
                        /\ last_call' = [last_call EXCEPT !.scraped = @ \cup {p},
                                                          !.found[p] = page.found,
                                                          !.failed = ~page.ok]
             [] due = "False" -> UpdateSkipped(next)
             [] OTHER -> UpdateRaised(due)
    /\ UNCHANGED <<self_sorted_versions, cache_file, now, runs, not_cache_vars>>

UpdateRelease == UpdateFrom("release", "patch")

UpdatePatch == UpdateFrom("patch", "beta")

\* lines 217-222 with 228-239: the beta index page and the page of each beta
\* version it names
UpdateBeta ==
    /\ cpc = "beta"
    /\ LET due == Eligible(cache, "beta", last_call.stage, last_call.force, now)
       IN  CASE due = "True" ->
                    \E index \in {PageFailed}
                             \cup {[ok |-> TRUE, found |-> S] : S \in SUBSET Range(BetaIds)} :
                    \E pages \in {f \in [Range(BetaIds) -> PageOutcomes(Range(BetaIds))] :
                                     \A id \in Range(BetaIds) :
                                         /\ f[id].found \subseteq {id}
                                         /\ id \notin index.found => f[id] = PageFailed} :
                        LET loaded == IF index.ok
                                      THEN LoadBetaPages(BetaIds, index.found, pages,
                                                         Emptied(cache.beta, now))
                                      ELSE [failed |-> TRUE, part |-> Emptied(cache.beta, now)]
                        IN  /\ cache' = [cache EXCEPT !.beta = loaded.part]
                            /\ cpc' = AfterFetch(~loaded.failed, "save")
                            /\ last_call' = [last_call EXCEPT
                                                !.scraped = @ \cup {"beta"},
                                                !.found.beta =
                                                    UNION {pages[id].found : id \in
                                                              {i \in index.found : ~loaded.failed}},
                                                !.failed = loaded.failed]
             [] due = "False" -> UpdateSkipped("save")
             [] OTHER -> UpdateRaised(due)
    /\ UNCHANGED <<self_sorted_versions, cache_file, now, runs, not_cache_vars>>

\* lines 225-226: self.save() and self.sorted_versions = None end update()
UpdateSave ==
    /\ cpc = "save"
    /\ cache_file' = save(cache)
    /\ self_sorted_versions' = Invalidate(self_sorted_versions)
    /\ cpc' = "versions"
    /\ last_call' = [last_call EXCEPT !.done = TRUE]
    /\ UNCHANGED <<cache, now, runs, not_cache_vars>>

\* lines 871 and 903: cache.list(stage) or version_list = cache.get_sorted_versions()
GetSortedVersionsOfCache ==
    /\ cpc \in {"start", "defaults", "update", "versions"}
    /\ LET value == get_sorted_versions(cache, self_sorted_versions)
       IN  /\ self_sorted_versions' = [set |-> TRUE, list |-> value]
           /\ last_call' = [op |-> "get_sorted_versions", value |-> value]
    /\ cpc' = "baseurl"
    /\ UNCHANGED <<cache, cache_file, now, runs, not_cache_vars>>

\* lines 909 and 553-555: load_ini(version) asks for the base url of a selected
\* version (one of the cached versions, or of the installed ones) and ends the
\* run with error() when there is none
GetBaseurl(v) ==
    /\ cpc \in {"start", "defaults", "update", "versions", "baseurl"}
    /\ LET r == get_baseurl(cache, v)
       IN  /\ cpc' = IF r.raised # "" \/ r.url = None THEN "exited" ELSE "baseurl"
           /\ last_call' = [op |-> "get_baseurl", version |-> v, raised |-> r.raised,
                            url |-> r.url]
    /\ UNCHANGED <<cache, self_sorted_versions, cache_file, now, runs, not_cache_vars>>

\* the script is started again, a day or a day and a second later: lines 169-176
NewRun(d, m) ==
    /\ cpc \in {"defaults", "update", "versions", "baseurl", "exited"}
    /\ runs < MaxRuns
    /\ runs' = runs + 1
    /\ now' = [seconds |-> now.seconds + d, microsecond |-> m]
    /\ cache' = load(cache_file, EmptyCache)
    /\ self_sorted_versions' = Invalidate(self_sorted_versions)
    /\ cpc' = "start"
    /\ last_call' = [op |-> "load"]
    /\ UNCHANGED <<cache_file, not_cache_vars>>

\* the script is started for the first time: there is no cache file
InitCache ==
    /\ InstallIdle
    /\ VersionIdle
    /\ TextIdle
    /\ IniIdle
    /\ RunIdle
    /\ DownloadIdle
    /\ SelectIdle
    /\ cache = EmptyCache
    /\ self_sorted_versions = NoList
    /\ cache_file = NoFile
    /\ now \in {[seconds |-> 0, microsecond |-> m] : m \in Microseconds}
    /\ runs = 1
    /\ cpc = "start"
    /\ last_call = [op |-> "load"]

NextCache ==
    \/ \E v \in DiscoverVersions : Remove(v)
    \/ \E url \in DiscoverURLs, probe \in ProbeOutcomes : Add(url, probe)
    \/ BatchSave
    \/ \E list \in PackageLists : SetDefaultPackages(list)
    \/ \E stage \in UpdateStages, force \in BOOLEAN : UpdateBegin(stage, force)
    \/ UpdateRelease
    \/ UpdatePatch
    \/ UpdateBeta
    \/ UpdateSave
    \/ GetSortedVersionsOfCache
    \/ \E v \in CatVersions : GetBaseurl(v)
    \/ \E d \in {CACHE_LIFETIME, CACHE_LIFETIME + 1}, m \in Microseconds : NewRun(d, m)

SpecCache == InitCache /\ [][NextCache]_vars

-----------------------------------------------------------------------------
-----------------------------------------------------------------------------
(* The version_cache as a class: its methods called one after the other in any
   order, each call running to its end. main() itself asks for the sorted
   versions only after its last change to the cache (lines 871 and 903). *)

\* lines 178-185: self.load() reads the cache file again
Load ==
    /\ cpc = "start"
    /\ cache_file.exists
    /\ cache' = load(cache_file, cache)
    /\ self_sorted_versions' = Invalidate(self_sorted_versions)
    /\ last_call' = [op |-> "load"]
    /\ UNCHANGED <<cache_file, now, runs, cpc, not_cache_vars>>

\* a method has returned and the next one may be called
Returned_ToCaller ==
    /\ cpc \in {"forget", "discover", "defaults", "update", "versions", "baseurl"}
    /\ cpc' = "start"
    /\ UNCHANGED <<cache, self_sorted_versions, cache_file, now, runs, last_call, not_cache_vars>>

NextMemo ==
    \/ \E v \in DiscoverVersions : Remove(v)
    \/ \E url \in DiscoverURLs, probe \in ProbeOutcomes : Add(url, probe)
    \/ \E stage \in UpdateStages, force \in BOOLEAN : UpdateBegin(stage, force)
    \/ UpdateRelease
    \/ UpdatePatch
    \/ UpdateBeta
    \/ UpdateSave
    \/ GetSortedVersionsOfCache
    \/ Load
    \/ Returned_ToCaller

SpecMemo == InitCache /\ [][NextMemo]_vars

(* main() and the cached manifests: ipc is "start" before line 822, "versions"
   inside the loop of line 908, "done" after it and "exited" after an error or
   an exception ended the run. *)

\* lines 822-825: with --update every unity*.ini file of script_dir is removed
ClearManifests ==
    /\ ipc = "start"
    /\ ini_files' = IF args_update THEN [v \in IniVersions |-> NoIni] ELSE ini_files
    /\ ipc' = "versions"
    /\ UNCHANGED <<args_update, ini_todo, fetched, ini_call, cache_vars, not_ini_vars>>

\* lines 908-909: config = load_ini(version) for the next of the selected versions
LoadIni(v, net) ==
    /\ ipc = "versions"
    /\ v \in ini_todo
    /\ LET r == load_ini(cache, ini_files, v, net)
       IN  /\ ini_files' = r.files
           /\ fetched' = IF r.url = NoFetch THEN fetched ELSE fetched \cup {r.url}
           /\ ini_call' = [op |-> "load_ini", version |-> v, raised |-> r.raised,
                           url |-> r.url, config |-> r.config, net |-> net,
                           isfile |-> ini_files[v].isfile]
           /\ ipc' = IF r.raised # "" THEN "exited"
                     ELSE IF ini_todo = {v} THEN "done" ELSE "versions"
    /\ ini_todo' = ini_todo \ {v}
    /\ UNCHANGED <<args_update, cache_vars, not_ini_vars>>

\* the script is started again, with or without --update, for some versions
NewIniRun(update, versions) ==
    /\ ipc \in {"versions", "done", "exited"}
    /\ runs < MaxRuns
    /\ runs' = runs + 1
    /\ args_update' = update
    /\ ini_todo' = versions
    /\ fetched' = {}
    /\ ini_call' = [op |-> "none"]
    /\ ipc' = "start"
    /\ UNCHANGED <<ini_files, cache, self_sorted_versions, cache_file, now, cpc, last_call,
                   not_ini_vars>>

\* the first start of the script: script_dir holds no manifest
InitIni ==
    /\ RunIdle
    /\ InstallIdle
    /\ VersionIdle
    /\ TextIdle
    /\ SelectIdle
    /\ DownloadIdle
    /\ cache \in Catalogs
    /\ self_sorted_versions = NoList
    /\ cache_file = save(cache)
    /\ now = [seconds |-> 0, microsecond |-> 0]
    /\ runs = 1
    /\ cpc = "idle"
    /\ last_call = [op |-> "none"]
    /\ ini_files = [v \in IniVersions |-> NoIni]
    /\ args_update \in BOOLEAN
    /\ ini_todo \in SUBSET IniVersions \ {{}}
    /\ fetched = {}
    /\ ini_call = [op |-> "none"]
    /\ ipc = "start"

NextIni ==
    \/ ClearManifests
    \/ \E v \in IniVersions, net \in FetchOutcomes : LoadIni(v, net)
    \/ \E update \in BOOLEAN, versions \in SUBSET IniVersions \ {{}} : NewIniRun(update, versions)

SpecIni == InitIni /\ [][NextIni]_vars

-----------------------------------------------------------------------------
(* select_packages applied to a manifest, a list of requested names and the
   flag --all-packages *)

\* the manifests: up to three sections of different names in any order, each
\* with its install option
Manifests ==
    {[i \in 1..Len(names) |-> [section |-> names[i], install |-> flags[i]]] :
        names \in DistinctSeqs(Range(available), Len(available)),
        flags \in [1..Len(available) -> BOOLEAN]}

\* line 930: selected = select_packages(config, packages)
SelectPackages ==
    /\ spc = "start"
    /\ LET r == select_packages(sel_config, sel_packages, sel_all_packages)
       IN  sel_result' = [raised |-> r.raised, selected |-> r.selected,
                          before |-> BeforeMove(sel_config, sel_packages,
                                                sel_all_packages).selected]
    /\ spc' = "selected"
    /\ UNCHANGED <<sel_config, sel_packages, sel_all_packages, not_select_vars>>

InitSelect ==
    /\ InstallIdle
    /\ VersionIdle
    /\ TextIdle
    /\ CacheIdle
    /\ IniIdle
    /\ RunIdle
    /\ DownloadIdle
    /\ sel_config \in Manifests
    /\ sel_packages \in SeqsUpTo(RequestNames, MaxRequests)
    /\ sel_all_packages \in BOOLEAN
    /\ sel_result = <<>>
    /\ spc = "start"

NextSelect == SelectPackages

SpecSelect == InitSelect /\ [][NextSelect]_vars

-----------------------------------------------------------------------------
(* A run that downloads and installs one version: dpc is "package" at the head
   of the loop of download() (line 609), "download_url" at the head of the loop
   of download_url (line 445), "verify" at line 627, "downloaded" when
   download() has returned, "installed" when install() has, "raised" while an
   exception leaves main(), and "exited" when the script has ended. *)

\* os.path.basename(fileurl) of the package
FileName(pkg) == pkg

\* lines 609-625: the next package of the selection, up to the call of
\* download_url. The warning of line 611 formats filename, a local that is
\* assigned at line 618: it is unbound in the first pass of the loop
\* (UnboundLocalError) and names the package before in the later ones.
CheckPackage ==
    /\ dpc = "package"
    /\ LET pkg == dl_selected[dl_index]
           has_md5 == pkg \in dl_md5
           already == AlreadyDownloaded(has_md5, dl_files[pkg])
       IN  IF ~has_md5 /\ dl_filename = "unbound"
           THEN /\ exc' = "UnboundLocalError"
                /\ dpc' = "raised"
                /\ dl_call' = [op |-> "package", pkg |-> pkg, warned |-> "", already |-> FALSE]
                /\ UNCHANGED dl_filename
           ELSE /\ dl_filename' = FileName(pkg)
                /\ dpc' = IF already THEN "verify" ELSE "download_url"
                /\ dl_call' = [op |-> "package", pkg |-> pkg,
                               warned |-> IF has_md5 THEN "" ELSE dl_filename,
                               already |-> already]
                /\ UNCHANGED exc
    /\ retries' = 0
    /\ UNCHANGED <<dl_selected, dl_md5, dl_files, dl_index, exit_status, not_download_vars>>

\* lines 445-494: one pass of the loop of download_url; error() prints and
\* raises SystemExit
Attempt(net) ==
    /\ dpc = "download_url"
    /\ LET pkg == dl_selected[dl_index]
           r == attempt(dl_files[pkg], FileSize, retries, net)
       IN  /\ dl_files' = [dl_files EXCEPT ![pkg] = r.file]
           /\ retries' = r.retries
           /\ dl_call' = [op |-> "attempt", pkg |-> pkg, existing |-> dl_files[pkg],
                          request |-> r.request, kind |-> r.kind, net |-> net]
           /\ dpc' = CASE r.kind = "retry" -> "download_url"
                       [] r.kind = "error" -> "raised"
                       [] OTHER -> "verify"
           /\ exc' = IF r.kind = "error" THEN "SystemExit" ELSE exc
    /\ UNCHANGED <<dl_selected, dl_md5, dl_index, dl_filename, exit_status, not_download_vars>>

\* lines 627-628, and the end of download() after the last package
Verify ==
    /\ dpc = "verify"
    /\ LET pkg == dl_selected[dl_index]
           corrupt == HashMismatch(pkg \in dl_md5, dl_files[pkg])
       IN  /\ dl_call' = [op |-> "verify", pkg |-> pkg, corrupt |-> corrupt]
           /\ IF corrupt
              THEN /\ exc' = "SystemExit"
                   /\ dpc' = "raised"
                   /\ UNCHANGED dl_index
              ELSE /\ dl_index' = IF dl_index < Len(dl_selected) THEN dl_index + 1 ELSE dl_index
                   /\ dpc' = IF dl_index < Len(dl_selected) THEN "package" ELSE "downloaded"
                   /\ UNCHANGED exc
    /\ UNCHANGED <<dl_selected, dl_md5, dl_files, dl_filename, retries, exit_status,
                   not_download_vars>>

\* lines 957-961: install(version, path, selected) is called and returns
InstallPhase ==
    /\ dpc = "downloaded"
    /\ dpc' = "installed"
    /\ dl_call' = [op |-> "install"]
    /\ UNCHANGED <<dl_selected, dl_md5, dl_files, dl_index, dl_filename, retries, exc,
                   exit_status, not_download_vars>>

\* Ctrl-C while main() runs: KeyboardInterrupt
Interrupt ==
    /\ dpc \in {"package", "download_url", "verify", "downloaded"}
    /\ exc' = "KeyboardInterrupt"
    /\ dpc' = "raised"
    /\ dl_call' = [op |-> "interrupt"]
    /\ UNCHANGED <<dl_selected, dl_md5, dl_files, dl_index, dl_filename, retries,
                   exit_status, not_download_vars>>

\* lines 967-977: main() has returned or an exception has left it
TopLevel ==
    /\ dpc \in {"installed", "raised"}
    /\ exit_status' = ExitStatus(exc)
    /\ dpc' = "exited"
    /\ dl_call' = [op |-> "exit", printed |-> Diagnostic(exc)]
    /\ UNCHANGED <<dl_selected, dl_md5, dl_files, dl_index, dl_filename, retries, exc,
                   not_download_vars>>

\* the selections download() is called with
Selections == {<<"Unity">>, <<"Unity", "Mono">>}

InitDownload ==
    /\ InstallIdle
    /\ VersionIdle
    /\ TextIdle
    /\ CacheIdle
    /\ IniIdle
    /\ RunIdle
    /\ SelectIdle
    /\ dl_selected \in Selections
    /\ dl_md5 \in SUBSET Range(dl_selected)
    /\ dl_files \in {f \in [Range(available) -> InitialFiles] :
                        \A pkg \in Range(available) \ Range(dl_selected) : f[pkg] = Missing}
    /\ dl_index = 1
    /\ dl_filename = "unbound"
    /\ retries = 0
    /\ dl_call = [op |-> "none"]
    /\ exc = ""
    /\ exit_status = -1
    /\ dpc = "package"

NextDownload ==
    \/ CheckPackage
    \/ \E net \in Responses(getsize(dl_files[dl_selected[dl_index]])) : Attempt(net)
    \/ Verify
    \/ InstallPhase
    \/ Interrupt
    \/ TopLevel

SpecDownload == InitDownload /\ [][NextDownload]_vars

\* the script goes on as long as it has a statement to execute; nothing makes
\* the user interrupt it
SpecDownloadFair ==
    /\ SpecDownload
    /\ WF_vars(CheckPackage)
    /\ WF_vars(\E net \in Responses(getsize(dl_files[dl_selected[dl_index]])) : Attempt(net))
    /\ WF_vars(Verify)
    /\ WF_vars(InstallPhase)
    /\ WF_vars(TopLevel)

-----------------------------------------------------------------------------
(* main() from line 879 on: the versions are selected and processed one after
   the other. rpc is "start" before line 879, "loop" at the head of the loop of
   line 908, "check_root" at line 952, "download" inside download(),
   "install_call" at line 958, "install" inside install(), "clean_up" at line
   961, "done" after the loop and "exited" after an error or an exception
   ended the run. The catalog is up to date, the manifests of the versions are
   cached and no default packages are saved, so that lines 891, 909 and 926
   fetch and change nothing. install() is the model above. *)

V540f1 == <<"5", ".", "4", ".", "0", "f", "1">>

\* a version as install() names it, as the text the version functions read
VersionText(v) == IF v = "5.3.0f1" THEN V530f1 ELSE V540f1

TextVersion(t) == CHOOSE v \in Versions : VersionText(v) = t

\* line 903: cache.get_sorted_versions()
RunCatalog == <<V530f1, V540f1>>

\* what the user may type for a version
RunTokens == {<<"5", ".", "3">>, V530f1, <<"5", ".", "4">>}

\* line 893: packages are requested and the main package is not among them
ComponentsOnly(op, packages) ==
    /\ op \in {None, "install"}
    /\ Len(packages) > 0
    /\ "unity" \notin Range(packages)

\* lines 880 and 893-903: version_list
version_list(op, packages, inst) ==
    IF ComponentsOnly(op, packages)
    THEN Sorted(KeysOf({VersionText(v) : v \in DOMAIN inst}))
    ELSE RunCatalog

LoopOrders_Listed(list) == {list}

\* lines 905 and 908: set([...]) drops the versions selected twice, and the
\* loop takes the elements of the set in an order of Python's choosing
LoopOrders(list) ==
    {order \in DistinctSeqs(Range(list), Cardinality(Range(list))) :
        Len(order) = Cardinality(Range(list))}

\* the run has ended with an error or an exception
RunExit(raised) ==
    /\ rpc' = "exited"
    /\ run_raised' = raised

\* what the steps of main() leave alone
not_main_vars == <<version_vars, text_vars, cache_vars, ini_vars, select_vars, download_vars>>

\* lines 879-906: the installations are looked up, once, and a version is
\* selected for each token
RunBegin ==
    /\ rpc = "start"
    /\ \E inst \in FindUnityInstalls(fs) :
       \E list \in {version_list(operation, args_package, inst)} :
       \E picks \in {[i \in 1..Len(args_versions) |-> select_version(args_versions[i], list)]} :
         /\ installs' = inst
         /\ IF ComponentsOnly(operation, args_package) /\ DOMAIN inst = {}
            THEN RunExit("error") /\ UNCHANGED run_versions
            ELSE IF \E i \in 1..Len(picks) : picks[i].error # ""
            THEN RunExit("error") /\ UNCHANGED run_versions
            ELSE \E versions \in {[i \in 1..Len(picks) |-> TextVersion(picks[i].version)]} :
                   /\ run_versions' \in LoopOrders(versions)
                   /\ rpc' = "loop"
                   /\ UNCHANGED run_raised
    /\ UNCHANGED <<fs, fs0, version, selected, downloaded, operation, pc, moved_unity_to,
                   moved_unity_from, install_error, invoked, outcome>>
    /\ UNCHANGED <<args_versions, args_package, args_keep, is_root, store, run_index,
                   prompts, events, not_main_vars>>

\* lines 908-950: the next version: its manifest, its selection, and the test
\* for a version that is installed already
TakeVersion ==
    /\ rpc = "loop"
    /\ run_versions # <<>>
    /\ LET v == Head(run_versions)
           r == select_packages(UnityManifest, args_package, FALSE)
       IN  /\ version' = v
           /\ run_versions' = Tail(run_versions)
           /\ selected' = r.selected
           /\ IF r.raised # "" THEN RunExit(r.raised)
              ELSE IF Len(r.selected) = 0 THEN rpc' = "loop" /\ UNCHANGED run_raised
              ELSE IF operation = None /\ "Unity" \in Range(r.selected) /\ v \in DOMAIN installs
              THEN rpc' = "loop" /\ UNCHANGED run_raised
              ELSE rpc' = "check_root" /\ UNCHANGED run_raised
    /\ UNCHANGED <<fs, fs0, installs, downloaded, operation, pc, moved_unity_to,
                   moved_unity_from, install_error, invoked, outcome>>
    /\ UNCHANGED <<args_versions, args_package, args_keep, is_root, store, run_index,
                   prompts, events, not_main_vars>>

\* line 908: the loop has taken every version
LoopEnd ==
    /\ rpc = "loop"
    /\ run_versions = <<>>
    /\ rpc' = "done"
    /\ UNCHANGED <<install_vars, args_versions, args_package, args_keep, is_root, run_versions,
                   store, run_index, prompts, events, run_raised, not_main_vars>>

\* line 665: the condition under which check_root() asks for the password
NeedsPassword(root, op) == ~root /\ op \in {None, "install"}

\* lines 952 and 663-681: check_root() asks for the password and tries it
CheckRoot ==
    /\ rpc = "check_root"
    /\ LET next == IF operation \in {None, "download"} THEN "download" ELSE "install_call"
       IN  IF NeedsPassword(is_root, operation)
           THEN /\ prompts' = prompts + 1
                /\ events' = Append(events, [ev |-> "prompt", version |-> version])
                /\ \E valid \in BOOLEAN :
                     IF valid THEN rpc' = next /\ UNCHANGED run_raised
                     ELSE RunExit("error")
           ELSE /\ rpc' = next
                /\ UNCHANGED <<prompts, events, run_raised>>
    /\ run_index' = 0
    /\ UNCHANGED <<install_vars, args_versions, args_package, args_keep, is_root, run_versions,
                   store, not_main_vars>>

\* lines 955 and 605-631: download() for the next package of the selection. A
\* file that is there is complete and is not requested again (lines 450-452);
\* a download that fails ends the run (lines 489-491, 627-628).
Download ==
    /\ rpc = "download"
    /\ LET pkg == selected[run_index + 1]
           made == makedirs(store, version)
           last == run_index + 1 = Len(selected)
           next == IF ~last THEN "download"
                   ELSE IF operation = None THEN "install_call" ELSE "loop"
       IN  IF pkg \in made.dirs[version].pkgs
           THEN /\ store' = made
                /\ rpc' = next
                /\ UNCHANGED <<events, run_raised>>
           ELSE /\ events' = Append(events, [ev |-> "download", version |-> version])
                /\ \E ok \in BOOLEAN :
                     IF ok
                     THEN /\ store' = [made EXCEPT !.dirs[version].pkgs = @ \cup {pkg}]
                          /\ rpc' = next
                          /\ UNCHANGED run_raised
                     ELSE /\ store' = made
                          /\ RunExit("error")
    /\ run_index' = run_index + 1
    /\ UNCHANGED <<install_vars, args_versions, args_package, args_keep, is_root, run_versions,
                   prompts, not_main_vars>>

\* line 958: install(version, path, selected) is entered
InstallCall ==
    /\ rpc = "install_call"
    /\ rpc' = "install"
    /\ pc' = "start"
    /\ fs0' = fs
    /\ downloaded' = Range(selected) \cap store.dirs[version].pkgs
    /\ moved_unity_to' = None
    /\ moved_unity_from' = None
    /\ install_error' = <<>>
    /\ invoked' = <<>>
    /\ outcome' = ""
    /\ events' = Append(events, [ev |-> "install", version |-> version])
    /\ UNCHANGED <<fs, installs, version, selected, operation>>
    /\ UNCHANGED <<args_versions, args_package, args_keep, is_root, run_versions, store,
                   run_index, prompts, run_raised, not_main_vars>>

\* lines 958-961: install() has returned, or its error or exception ends the run
InstallReturn ==
    /\ rpc = "install"
    /\ pc = "done"
    /\ pc' = "idle"
    /\ IF outcome = "ok"
       THEN /\ rpc' = IF ~args_keep /\ operation = None THEN "clean_up" ELSE "loop"
            /\ UNCHANGED run_raised
       ELSE RunExit(outcome)
    /\ UNCHANGED <<fs, fs0, installs, version, selected, downloaded, operation, moved_unity_to,
                   moved_unity_from, install_error, invoked, outcome>>
    /\ UNCHANGED <<args_versions, args_package, args_keep, is_root, run_versions, store,
                   run_index, prompts, events, not_main_vars>>

\* lines 960-961: clean_up(path)
CleanUp ==
    /\ rpc = "clean_up"
    /\ LET r == clean_up(store, version)
       IN  /\ store' = r.store
           /\ events' = Append(events, [ev |-> "clean_up", version |-> version])
           /\ IF r.raised # "" THEN RunExit(r.raised)
              ELSE rpc' = "loop" /\ UNCHANGED run_raised
    /\ UNCHANGED <<install_vars, args_versions, args_package, args_keep, is_root, run_versions,
                   run_index, prompts, not_main_vars>>

\* the Applications directory at the start: nothing, a version in the
\* canonical directory, or that and another version beside it
RunVolumes ==
    LET none == [d \in DirNames |-> NoDir]
        one == [none EXCEPT ![Canonical] = [ver |-> "5.3.0f1", id |-> Canonical, pkgs |-> {}]]
        two == [one EXCEPT ![Qualified("5.4.0f1")] =
                   [ver |-> "5.4.0f1", id |-> Qualified("5.4.0f1"), pkgs |-> {}]]
    IN  {none, one, two}

\* the download path at the start: nothing, or the directory of each version
\* as an earlier run or the user left it
RunStores ==
    {NoStore} \cup
    {[root |-> TRUE, dirs |-> [v \in Versions |-> [isdir |-> TRUE, pkgs |-> have, strays |-> left]]] :
        have \in {{}, Range(available)},
        left \in {{}, {".DS_Store", "Archive.PKG"}, {".DS_Store", "notes.txt"}}}

InitRun ==
    /\ VersionIdle
    /\ TextIdle
    /\ CacheIdle
    /\ IniIdle
    /\ SelectIdle
    /\ DownloadIdle
    /\ fs \in RunVolumes
    /\ fs0 = fs
    /\ installs = <<>>
    /\ version = ""
    /\ selected = <<>>
    /\ downloaded = {}
    /\ operation \in {None, "download", "install"}
    /\ pc = "idle"
    /\ moved_unity_to = None
    /\ moved_unity_from = None
    /\ install_error = <<>>
    /\ invoked = <<>>
    /\ outcome = ""
    /\ args_versions \in SeqsUpTo(RunTokens, MaxTokens) \ {<<>>}
    /\ args_package \in {<<>>, <<"unity">>, <<"mono">>}
    /\ args_keep \in BOOLEAN
    /\ is_root \in BOOLEAN
    /\ run_versions = <<>>
    /\ store \in RunStores
    /\ run_index = 0
    /\ prompts = 0
    /\ events = <<>>
    /\ run_raised = ""
    /\ rpc = "start"

NextRun ==
    \/ RunBegin
    \/ TakeVersion
    \/ LoopEnd
    \/ CheckRoot
    \/ Download
    \/ InstallCall
    \/ Install_Prepare
    \/ Install_Invoke
    \/ Install_RevertFrom
    \/ Install_RevertTo
    \/ Install_Finish
    \/ InstallReturn
    \/ CleanUp

SpecRun == InitRun /\ [][NextRun]_vars

-----------------------------------------------------------------------------
(* Properties of install() *)

Done == pc = "done"

InstallerFailed == \E i \in 1..Len(invoked) : invoked[i].rc # 0

\* every package of the selection was handed to the installer, and each
\* invocation returned success
AllInstalled == Len(invoked) = Len(selected) /\ ~InstallerFailed

\* at entry the target version sits in a non-canonical directory and the
\* canonical directory holds another recognized version
SwapStart ==
    /\ version \in DOMAIN installs
    /\ installs[version] # Canonical
    /\ fs0[Canonical].ver \in Versions \ {version}

OthersUntouched(names) == \A d \in DirNames \ names : fs[d] = fs0[d]

FreshStart ==
    /\ \A d \in DirNames : fs0[d].ver # version
    /\ fs0[Canonical].ver \in Versions \ {version}
    /\ ~isdir(fs0, Qualified(version))
    /\ ~isdir(fs0, Qualified(fs0[Canonical].ver))

NoBase == version \notin DOMAIN installs /\ "Unity" \notin Range(selected)

NothingDone == fs = fs0 /\ invoked = <<>>

AsideTaken ==
    /\ fs0[Canonical].ver \in Versions \ {version}
    /\ isdir(fs0, Qualified(fs0[Canonical].ver))

-----------------------------------------------------------------------------
(* Properties of the version selection *)

Selected == vpc = "done"

InputParts == parse_version(arg_version).parts

Parts(v) == parse_version(v).parts

PoolIndexes == 1..Len(sorted_versions)

\* C8: from a candidate list sorted ascending by compare_versions,
\* select_version returns a candidate that matches the input and no candidate
\* that compares greater matches too; when no candidate matches it fails with
\* the no-match error and returns nothing. select("5.3.5b", [5.3.0f1, 5.3.1f1,
\* 5.3.2p1, 5.3.5b1]) returns 5.3.5b1.
C8_SelectsHighestMatch ==
    Selected =>
        /\ \A i, j \in PoolIndexes :
              i < j => compare_versions(sorted_versions[i], sorted_versions[j]) <= 0
        /\ IF selection.error = ""
           THEN /\ \E i \in PoolIndexes : sorted_versions[i] = selection.version
                /\ input_matches_version(InputParts, Parts(selection.version))
                /\ \A j \in PoolIndexes :
                      compare_versions(sorted_versions[j], selection.version) > 0
                          => ~input_matches_version(InputParts, Parts(sorted_versions[j]))
           ELSE /\ selection.error = "NoMatch"
                /\ selection.version = <<>>
                /\ \A j \in PoolIndexes :
                      ~input_matches_version(InputParts, Parts(sorted_versions[j]))
        /\ (arg_version = <<"5", ".", "3", ".", "5", "b">> /\ sorted_versions = ExamplePool)
              => selection.version = V535b1

C8_Witness ==
    /\ Selected
    /\ arg_version = <<"5", ".", "3", ".", "5", "b">>
    /\ all_versions = <<V535b1, V530f1, V532p1, V531f1>>
    /\ sorted_versions = ExamplePool
    /\ selection.version = V535b1

DefaultStageExample ==
    Selected /\ arg_version = <<"5", ".", "3">> /\ sorted_versions = ExamplePool

\* C9 as stated: select("5.3", [5.3.0f1, 5.3.1f1, 5.3.2p1, 5.3.5b1]) returns
\* 5.3.2p1.
C9_DefaultStageTakesPatch == DefaultStageExample => selection.version = V532p1

\* C9, amended: select("5.3", [5.3.0f1, 5.3.1f1, 5.3.2p1, 5.3.5b1]) returns
\* 5.3.1f1: a version written without a stage letter has the stage final and
\* accepts final candidates only; the patch release 5.3.2p1 is excluded as well
\* as the beta 5.3.5b1.
C9_DefaultStageTakesFinal ==
    DefaultStageExample =>
        /\ selection.error = ""
        /\ selection.version = V531f1
        /\ selection.tried = <<[version |-> V535b1, matched |-> FALSE],
                               [version |-> V532p1, matched |-> FALSE],
                               [version |-> V531f1, matched |-> TRUE]>>

C9_Witness == DefaultStageExample /\ selection.version = V531f1

HasLetter(v) == \E i \in 1..Len(v) : v[i] \notin Digits \cup {"."}

\* C10: for every input and every complete candidate that select_version
\* compares, input_matches_version is false when the candidate's stage strength
\* is greater than the input's, the input's stage being final when it has no
\* stage letter: an input of stage final matches no beta or alpha candidate. And
\* when it is true, every part among major, minor, patch and stage number that
\* the input gives equals the candidate's.
C10_StageAsymmetry ==
    /\ ~HasLetter(arg_version) /\ parse_version(arg_version).error = ""
          => InputParts[4] = RELEASE_LETTER_STRENGTH("f")
    /\ \A k \in 1..Len(selection.tried) :
          LET t == selection.tried[k]
              cand == Parts(t.version)
          IN  /\ t.matched = input_matches_version(InputParts, cand)
              /\ cand[4] > InputParts[4] => ~t.matched
              /\ (InputParts[4] = RELEASE_LETTER_STRENGTH("f")
                     /\ cand[4] >= RELEASE_LETTER_STRENGTH("b")) => ~t.matched
              /\ t.matched =>
                    \A i \in {1, 2, 3, 5} :
                        InputParts[i] # NoneField => InputParts[i] = cand[i]

C10_Witness ==
    /\ Selected
    /\ ~HasLetter(arg_version)
    /\ Len(selection.tried) = 3
    /\ Parts(selection.tried[1].version)[4] = RELEASE_LETTER_STRENGTH("a")
    /\ Parts(selection.tried[2].version)[4] = RELEASE_LETTER_STRENGTH("b")
    /\ ~selection.tried[1].matched /\ ~selection.tried[2].matched
    /\ selection.tried[3].matched

-----------------------------------------------------------------------------
(* Properties of compare_versions, version_string and parse_version *)

Compared == ppc = "compared"

\* the release letters from the weakest to the strongest stage
StageOrder == <<"f", "p", "b", "a">>

StagePosition(letter) == CHOOSE i \in 1..Len(StageOrder) : StageOrder[i] = letter

\* what a valid text is ordered by: its numbers as written (NoneField when not
\* written) and its letter's place in StageOrder (f when no letter is written)
OrderKey(t) ==
    LET m == MatchVersion(t)
    IN  <<m.major, m.minor, m.patch,
          StagePosition(IF m.letter = "" THEN "f" ELSE m.letter), m.number>>

\* decided by the first part that differs, where NoneField is below every number
Lexicographic(p, q) ==
    LET differ == {i \in 1..Len(p) : p[i] # q[i]}
        first == CHOOSE i \in differ : \A j \in differ : i <= j
    IN  IF differ = {} THEN 0
        ELSE IF p[first] = NoneField \/ (q[first] # NoneField /\ p[first] < q[first]) THEN -1
        ELSE 1

\* C11: compare_versions is a total order on parsed versions: comparing a version
\* with itself gives 0, swapping the arguments negates the result, the order is
\* transitive, and it is the lexicographic order on major, minor, patch, stage
\* and stage number, where an unset part is below every set one and the stage
\* is ranked f < p < b < a.
C11_TotalOrder ==
    Compared =>
        /\ presult.aa = 0
        /\ presult.ab \in {-1, 0, 1}
        /\ presult.ab = 0 - presult.ba
        /\ (presult.ab <= 0 /\ presult.bc <= 0) => presult.ac <= 0
        /\ (presult.ab < 0 /\ presult.bc <= 0) => presult.ac < 0
        /\ (presult.ab <= 0 /\ presult.bc < 0) => presult.ac < 0
        /\ presult.ab = Lexicographic(OrderKey(text_a), OrderKey(text_b))
        /\ presult.bc = Lexicographic(OrderKey(text_b), OrderKey(text_c))
        /\ presult.ac = Lexicographic(OrderKey(text_a), OrderKey(text_c))

\* "f" is below "b" by rank though not by letter, and "b" without a major number
\* is below "5a"
C11_Witness ==
    /\ Compared
    /\ text_a = <<"f">>
    /\ text_b = <<"b">>
    /\ text_c = <<"5", "a">>
    /\ presult.ab = -1
    /\ presult.bc = -1
    /\ presult.ac = -1

Formatted == ppc = "formatted"

\* every part of the parsed text is set
AllPartsSet == \A i \in 1..Len(presult.parsed.parts) : presult.parsed.parts[i] # NoneField

\* C12 as stated: for every valid text with a major number, complete or partial,
\* the text that version_string makes of its parsed parts is parseable again and
\* compares equal to the text.
C12_RoundTripAlways ==
    (Formatted /\ presult.parsed.parts[1] # NoneField) =>
        presult.reparsed.error = "" /\ presult.compared = 0

\* C12: when a valid text gives every part (major, minor, patch and stage number)
\* the text that version_string makes of its parsed parts is parseable again, has
\* the same parts and compares equal to the text; when a part is missing the
\* formatted text holds an x in its place and parse_version rejects it.
C12_RoundTripWhenComplete ==
    Formatted =>
        IF AllPartsSet
        THEN /\ presult.reparsed.error = ""
             /\ presult.reparsed.parts = presult.parsed.parts
             /\ presult.compared = 0
        ELSE /\ "x" \in Range(presult.formatted)
             /\ presult.reparsed.error = "Format"

\* a complete version written with leading zeros comes back without them and
\* compares equal
C12_Witness ==
    /\ Formatted
    /\ text_a = ZeroPadded
    /\ presult.formatted = V531f1
    /\ presult.compared = 0

Parsed == ppc \in {"parsed", "formatted"}

IsNumber(s) == s # <<>> /\ \A i \in 1..Len(s) : s[i] \in Digits

DotNumber(s) == Len(s) >= 2 /\ s[1] = "." /\ IsNumber(Tail(s))

StagePart(s, letters) == s # <<>> /\ s[1] \in letters /\ (Len(s) = 1 \/ IsNumber(Tail(s)))

\* the text can be cut into major, .minor, .patch and letter with number, where
\* the patch needs the minor, the number needs the letter, and the major can be
\* left out only when majorOptional
Grammar(s, majorOptional, letters) ==
    \E i, j, k \in 0..Len(s) :
        /\ i <= j /\ j <= k
        /\ LET major == SubSeq(s, 1, i)
               minor == SubSeq(s, i + 1, j)
               patch == SubSeq(s, j + 1, k)
               stage == SubSeq(s, k + 1, Len(s))
           IN  /\ IsNumber(major) \/ (majorOptional /\ major = <<>>)
               /\ \/ minor = <<>> /\ patch = <<>>
                  \/ DotNumber(minor) /\ (patch = <<>> \/ DotNumber(patch))
               /\ stage = <<>> \/ StagePart(stage, letters)

AnyLetter == WordChars \ Digits

-----------------------------------------------------------------------------
(* Properties of the version cache *)



Partitions == {"release", "patch", "beta"}

CacheKeys == Partitions \cup {"discovered", "default_packages"}

\* the release letter of the stage a partition holds
PartitionLetter(p) == CASE p = "release" -> "f" [] p = "patch" -> "p" [] p = "beta" -> "b"

\* the partition's _lastupdate is more than 24 hours before now
StampedOverADayAgo(p) ==
    LET text == cache[p].lastupdate[1]
        microsecond == IF text.fraction = <<>> THEN 0 ELSE text.fraction[1]
        seconds == now.seconds - text.seconds
    IN  \/ seconds > 24 * 60 * 60
        \/ seconds = 24 * 60 * 60 /\ now.microsecond > microsecond

\* the partition is to be loaded again by the update() that is running: its
\* stage is not above the stage asked for, and force is set or the partition is
\* missing or stamped more than 24 hours ago
DueForRefresh(p) ==
    /\ StagePosition(PartitionLetter(p)) <= StagePosition(last_call.stage)
    /\ \/ last_call.force
       \/ ~cache[p].present
       \/ cache[p].lastupdate = <<>>
       \/ StampedOverADayAgo(p)

UpdateDone == last_call.op = "update" /\ last_call.done

\* C14: update(stage, force) loads a partition among release, patch and beta
\* again if and only if the partition's strength is at most the strength of
\* stage and force is set or the partition is missing or its _lastupdate is
\* more than 24 hours old; every other partition, the discovered partition and
\* the saved default packages stay as they are.
C14_OnlyEligibleRefreshed ==
    [][/\ \A p \in Partitions :
              cpc = p =>
                  /\ p \in last_call'.scraped <=> DueForRefresh(p)
                  /\ DueForRefresh(p) =>
                         cache'[p].present /\ cache'[p].lastupdate = <<isoformat(now)>>
                  /\ ~DueForRefresh(p) => cache'[p] = cache[p]
                  /\ \A q \in CacheKeys \ {p} : cache'[q] = cache[q]
       /\ (cpc' = "release" \/ cpc = "save") => cache' = cache]_vars

\* C15: once update() has loaded a partition again, the partition holds exactly
\* the versions found by that load, each with the base url found (for beta: what
\* the pages of all the beta versions named by the index gave); no entry from
\* before is kept, and _lastupdate is the time of the load.
C15_WholesaleReplacement ==
    (last_call.op = "update" /\ ~last_call.failed) =>
        \A p \in last_call.scraped :
            /\ cache[p].present
            /\ DOMAIN cache[p].url = last_call.found[p]
            /\ \A v \in DOMAIN cache[p].url : cache[p].url[v] = WebURL
            /\ cache[p].lastupdate = <<isoformat(now)>>

\* the release that the file still holds is gone from the partition loaded
\* again, and the beta partition holds what both beta pages gave
C15_Witness ==
    /\ last_call.op = "update"
    /\ cpc = "save"
    /\ last_call.scraped = Partitions
    /\ V531f1 \in DOMAIN cache_file.data.release.url
    /\ last_call.found.release = {}
    /\ cache.release.url = <<>>
    /\ DOMAIN cache.beta.url = {V535b1, V540a1}

FetchFailed == last_call.op = "update" /\ last_call.failed

\* C16: when a page cannot be fetched during update() (the release page, the
\* patch page, the beta index or the page of a beta version) the run ends there,
\* no further partition is loaded, and the cache file is what it was when
\* update() began: update() writes the file only after all partitions.
C16_FailedRefreshNotPersisted ==
    [][/\ (cpc' = "release" \/ cpc \in Partitions) => cache_file' = cache_file
       /\ (last_call'.op = "update" /\ last_call'.failed) => cpc' = "exited"
       /\ FetchFailed => (cpc' = "start" /\ cache_file' = cache_file
                             /\ cache' = load(cache_file, EmptyCache))]_vars

\* the patch page could not be fetched in the second run: the release partition
\* loaded just before and the emptied patch partition are in memory only
C16_Witness ==
    /\ FetchFailed
    /\ cpc = "exited"
    /\ last_call.scraped = {"release", "patch"}
    /\ cache_file.exists
    /\ cache.release.lastupdate # cache_file.data.release.lastupdate
    /\ cache.patch.url = <<>>
    /\ V532p1 \in DOMAIN cache_file.data.patch.url

\* only cache.add(url) brings main() to the loop over args.discover
AddStep == cpc' = "discover"

RemoveStep == cpc \in {"start", "forget"} /\ last_call'.op = "remove"

\* C18: remove(version) deletes the version from the discovered partition only
\* and returns True; when the version is not there (or there is no discovered
\* partition) it warns and returns False without raising, leaves every partition
\* as it is, and the arguments that follow are still handled.
C18_ForgetOnlyDiscovered ==
    [][RemoveStep =>
           LET v == last_call'.version
               held == cache.discovered.present /\ v \in DOMAIN cache.discovered.url
           IN  /\ last_call'.raised = ""
               /\ cpc' = "forget"
               /\ last_call'.result <=> held
               /\ held => DOMAIN cache'.discovered.url = DOMAIN cache.discovered.url \ {v}
               /\ ~held => cache' = cache
               /\ \A q \in CacheKeys \ {"discovered"} : cache'[q] = cache[q]]_vars

LookupOrder == <<"discovered", "release", "patch", "beta">>

\* the partitions that are there and hold the version, by their place in LookupOrder
Holding(v) ==
    {i \in 1..Len(LookupOrder) :
        cache[LookupOrder[i]].present /\ v \in DOMAIN cache[LookupOrder[i]].url}

\* the base url of the first partition in LookupOrder that holds the version
FirstBaseurl(v) ==
    IF Holding(v) = {} THEN None
    ELSE LET first == CHOOSE i \in Holding(v) : \A j \in Holding(v) : i <= j
         IN  cache[LookupOrder[first]].url[v]

\* C19: get_baseurl(version) returns the base url of the first partition among
\* discovered, release, patch, beta that holds the version, also when several
\* hold it and when some of the partitions are not there, and returns None
\* without raising when none holds it.
C19_LookupOrder ==
    last_call.op = "get_baseurl" =>
        /\ last_call.raised = ""
        /\ last_call.url = FirstBaseurl(last_call.version)

Listed == last_call.op = "get_sorted_versions"

\* how often the version is in the list
Occurrences(v, list) == Cardinality({i \in 1..Len(list) : list[i] = v})

\* C20 as stated: after any sequence of update, add and remove no version is a
\* key of more than one partition, and get_sorted_versions() holds every version
\* at most once.
C20_UniqueAcrossPartitions ==
    /\ \A v \in CatVersions : Cardinality(Holding(v)) <= 1
    /\ Listed => \A v \in CatVersions : Occurrences(v, last_call.value) <= 1

\* C20: after any sequence of update, add and remove a version can be a key of
\* the discovered partition and of a loaded partition at once (add does not look
\* at the other partitions and update does not look at discovered), and
\* get_sorted_versions() holds a version once for every partition that holds
\* it, in ascending order.
C20_ListedOncePerPartition ==
    Listed =>
        /\ \A v \in CatVersions :
               Occurrences(v, last_call.value) = Cardinality(Holding(v))
        /\ \A i \in 1..Len(last_call.value) : last_call.value[i] \in CatVersions
        /\ \A i, j \in 1..Len(last_call.value) :
               i < j => compare_versions(last_call.value[i], last_call.value[j]) <= 0

\* 5.3.1f1 was discovered and is on the release page too: it is listed twice
C20_Witness ==
    /\ Listed
    /\ Holding(V531f1) = {1, 2}
    /\ Occurrences(V531f1, last_call.value) = 2
    /\ cache.discovered.url[V531f1] = MirrorURL
    /\ cache.release.url[V531f1] = WebURL

\* the run is inside the batch of lines 828-838 and a cache.remove() or
\* cache.add() of the batch has changed self.cache ('Removed version' or 'Added
\* version' was printed)
BatchChanged == cpc \in {"forget", "discover"}

\* C21: whenever a run ends, normally or by a fatal error, after a refresh, a
\* discover/forget batch or a save of the default packages has changed the
\* catalog in memory, the cache file holds that change: no change that was
\* reported as done ('Added version', 'Removed version') is lost because the file
\* was not written. Stated for the batch: when the run ends inside a batch that
\* has changed the catalog, the file holds the catalog as it is in memory.
C21_ReportedChangePersisted ==
    [][(BatchChanged /\ cpc' = "exited") =>
           (cache_file'.exists /\ cache_file'.data = cache')]_vars

\* C22: load_ini(version) requests nothing from the network when the manifest
\* file of the version exists and no refresh was forced; otherwise it requests
\* baseURL + manifest name, writes the response to the file as it came and parses
\* it; with --update every manifest file is removed before any version is
\* processed, so every manifest used in the run was fetched in the run; a fetch
\* that fails ends the run and leaves no manifest file for the version.
C22_ManifestCaching ==
    [][(ipc = "versions" /\ ini_call'.op = "load_ini") =>
              LET v == ini_call'.version
                  had == ini_call'.isfile
              IN  /\ (had /\ ~args_update) => fetched' = fetched
                  /\ (~had /\ ini_call'.raised = "") =>
                         /\ ini_call'.url = IniURL(WebURL, v)
                         /\ ini_files'[v] = [isfile |-> TRUE, text |-> ini_call'.net.text]
                         /\ ini_call'.config = ConfigParser_read(ini_call'.net.text, <<>>)
                  /\ (args_update /\ ini_call'.raised = "") => ini_call'.url \in fetched'
                  /\ (~had /\ ini_call'.net.raised # "" /\ ini_call'.url # NoFetch) =>
                         /\ ipc' = "exited"
                         /\ ~ini_files'[v].isfile]_vars

-----------------------------------------------------------------------------
(* Properties of select_packages *)

Returned == spc = "selected" /\ sel_result.raised = ""

\* the list without the main package
RECURSIVE Others(_)
Others(list) ==
    IF list = <<>> THEN <<>>
    ELSE IF Head(list) = "Unity" THEN Others(Tail(list))
         ELSE <<Head(list)>> \o Others(Tail(list))

\* C23: for every manifest and every list of requested names, when the package
\* named exactly 'Unity' is in the list select_packages returns, it is the first
\* element, and the other packages are in the order they had before the move.
C23_MainPackageFirst ==
    (Returned /\ "Unity" \in Range(sel_result.selected)) =>
        /\ sel_result.selected[1] = "Unity"
        /\ Others(sel_result.selected) = Others(sel_result.before)
        /\ Len(sel_result.selected) = Len(sel_result.before)

\* the main package was the last of three selected packages and is now the first
C23_Witness ==
    /\ Returned
    /\ Len(sel_result.before) = 3
    /\ sel_result.before[3] = "Unity"
    /\ sel_result.selected[1] = "Unity"
    /\ sel_result.selected[2] = sel_result.before[1]
    /\ sel_result.selected[3] = sel_result.before[2]

\* the sections of the manifest whose name is a requested name, ignoring case
Requested ==
    {sel_config[i].section : i \in {j \in 1..Len(sel_config) :
        \E k \in 1..Len(sel_packages) : lower(sel_config[j].section) = lower(sel_packages[k])}}

\* C24: with no requested name select_packages returns every package of the
\* manifest when --all-packages is set and otherwise exactly the packages whose
\* install option is true; with requested names it returns, in the case of the
\* manifest, exactly the packages whose name is a requested name ignoring case,
\* and a requested name without such a package is skipped with a warning: the
\* run does not fail and the other requested packages are not dropped.
C24_SelectionContent ==
    spc = "selected" =>
        /\ sel_result.raised = ""
        /\ Range(sel_result.selected) =
               IF sel_packages = <<>>
               THEN IF sel_all_packages
                    THEN {sel_config[i].section : i \in 1..Len(sel_config)}
                    ELSE {sel_config[i].section : i \in {j \in 1..Len(sel_config) :
                                                           sel_config[j].install}}
               ELSE Requested

-----------------------------------------------------------------------------
(* Properties of download_url, download() and the end of the run *)

\* a pass of the loop of download_url has just ended
Attempted == dl_call.op = "attempt"

\* the file of the package that download() has come to
CurrentFile == dl_files[dl_selected[dl_index]]

\* C25: at the start of each attempt download_url compares the size on disk
\* with the expected size. Equal: it returns at once, without a request.
\* Greater: it returns with a message and without a request, the file as it
\* was. Smaller and not zero: it sends a request whose Range header starts at
\* exactly the size on disk, and appends to the file. Missing or zero bytes: it
\* sends a request without Range header and writes from offset 0.
C25_CheckingTransitions ==
    Attempted =>
        LET before == dl_call.existing
            size == Len(before.bytes)
            arrived == IF dl_call.net.failed THEN <<>> ELSE dl_call.net.bytes
        IN  /\ (before.isfile /\ size = FileSize) =>
                   /\ dl_call.kind = "skipped"
                   /\ ~dl_call.request.sent
                   /\ CurrentFile = before
                   /\ dpc = "verify"
            /\ (before.isfile /\ size > FileSize) =>
                   /\ dl_call.kind = "bigger"
                   /\ ~dl_call.request.sent
                   /\ CurrentFile = before
                   /\ dpc = "verify"
            /\ (before.isfile /\ 0 < size /\ size < FileSize) =>
                   /\ dl_call.request.sent
                   /\ dl_call.request.range = <<size>>
                   /\ CurrentFile.bytes = before.bytes \o arrived
            /\ (~before.isfile \/ size = 0) =>
                   /\ dl_call.request.sent
                   /\ dl_call.request.range = <<>>
                   /\ CurrentFile.bytes = arrived

\* a file of one byte was there, the request asked for the bytes from 1 on, and
\* what arrived was appended: the file is complete
C25_Witness ==
    /\ Attempted
    /\ dl_call.existing = File(SubSeq(TrueBytes, 1, 1))
    /\ dl_call.request = [sent |-> TRUE, range |-> <<1>>]
    /\ dl_call.kind = "complete"
    /\ CurrentFile = File(TrueBytes)

\* the pass of download_url that has just ended met a failed request, a read
\* error or a short read
TransientError ==
    /\ Attempted
    /\ dl_call.request.sent
    /\ \/ dl_call.net.failed
       \/ dl_call.net.read_error
       \/ Len(CurrentFile.bytes) < FileSize

\* C26: download_url always terminates. After a transient error (failed
\* request, read error, short read) it tries again, each time reading the size
\* on disk anew and resuming from it; at most 3 retries follow the first attempt,
\* and when the attempt after the third retry fails too, download_url ends with
\* a fatal error that ends the whole run: no later package is downloaded and
\* nothing is installed.
C26_BoundedRetry ==
    /\ [](Attempted =>
            /\ retries <= DOWNLOAD_MAX_RETRIES + 1
            /\ (dl_call.request.sent /\ ~TransientError) => dl_call.kind = "complete"
            /\ TransientError =>
                   /\ retries >= 1
                   /\ dl_call.kind = IF retries <= DOWNLOAD_MAX_RETRIES THEN "retry" ELSE "error"
            /\ dl_call.kind = "retry" => dpc = "download_url"
            /\ dl_call.request.sent =>
                   dl_call.request.range =
                       IF getsize(dl_call.existing) > 0 THEN <<getsize(dl_call.existing)>>
                       ELSE <<>>
            /\ dl_call.kind = "error" => (exc = "SystemExit" /\ dpc = "raised"))
    /\ [][/\ (dpc = "download_url" /\ dpc' = "download_url") =>
                 (dl_call'.existing = CurrentFile /\ retries' = retries + 1)
          /\ exc = "SystemExit" =>
                 (dl_files' = dl_files /\ dl_index' = dl_index /\ dpc' = "exited")]_vars
    /\ (dpc = "download_url") ~> (dpc \in {"verify", "raised"})

\* the first attempt and three retries have failed, the last on a request for
\* the bytes from 1 on: the run ends with the file still short
C26_Witness ==
    /\ Attempted
    /\ dl_call.kind = "error"
    /\ retries = DOWNLOAD_MAX_RETRIES + 1
    /\ dl_call.request = [sent |-> TRUE, range |-> <<1>>]
    /\ Len(CurrentFile.bytes) < FileSize
    /\ dl_index = 1
    /\ Len(dl_selected) = 2
    /\ exc = "SystemExit"

\* download() has gone past the i-th package of the selection
Passed(i) ==
    \/ i < dl_index
    \/ dpc \in {"downloaded", "installed"}
    \/ dpc = "exited" /\ exc = ""

Verified == dl_call.op = "verify"

\* C27: for every selected package whose manifest section has an md5 hash,
\* download() goes on to the next package, and the run reaches the install
\* phase, only if the hash of the file on disk equals the hash of the manifest;
\* this holds however download_url ended, also for a file skipped because its
\* size equals the expected size and for a file accepted because it is larger
\* than expected; a mismatch is a fatal error.
C27_IntegrityGate ==
    /\ \A i \in 1..Len(dl_selected) :
           (dl_selected[i] \in dl_md5 /\ Passed(i)) =>
               hashfile(dl_files[dl_selected[i]]) = md5_option
    /\ (Verified /\ dl_call.pkg \in dl_md5
            /\ hashfile(dl_files[dl_call.pkg]) # md5_option) =>
           (dl_call.corrupt /\ exc = "SystemExit" /\ dpc = "raised")

\* a file longer than expected was accepted by download_url without a request
\* and is refused by the comparison of the hashes
C27_Witness ==
    /\ Verified
    /\ dl_call.corrupt
    /\ dl_selected[dl_index] \in dl_md5
    /\ Len(CurrentFile.bytes) > FileSize
    /\ exc = "SystemExit"
    /\ dpc = "raised"

\* C28: for a selected package whose manifest section has no md5 option, at any
\* place of the selection, the first included, download() prints a warning,
\* downloads the file, accepts it without verification and goes on with the
\* next package: the run is not aborted.
C28_MissingHashNotFatal ==
    /\ (dl_call.op = "package" /\ dl_call.pkg \notin dl_md5) =>
           (exc = "" /\ dpc = "download_url")
    /\ (Verified /\ dl_call.pkg \notin dl_md5) => (~dl_call.corrupt /\ exc = "")

\* C29 as stated: when download_url begins with a file of N bytes and the
\* expected size is M > N, the file has exactly M bytes whenever download_url
\* returns normally.
C29_ExactlyComplete ==
    (Attempted /\ dl_call.kind = "complete") => Len(CurrentFile.bytes) = FileSize

\* C29: when download_url begins with a file of N bytes and the expected size
\* is M > N, the file has at least M bytes whenever download_url returns
\* normally, and more than M only when the server sent more than the M - N
\* bytes asked for; download_url does not return normally from a pass that
\* leaves fewer than M bytes: it tries again, and ends the run with a fatal
\* error once the retries are used up.
C29_AtLeastComplete ==
    (Attempted /\ dl_call.request.sent) =>
        LET asked == FileSize - getsize(dl_call.existing)
        IN  /\ getsize(dl_call.existing) < FileSize
            /\ dl_call.kind \in {"complete", "retry", "error"}
            /\ dl_call.kind = "complete" =>
                   /\ Len(CurrentFile.bytes) >= FileSize
                   /\ Len(CurrentFile.bytes) > FileSize => Len(dl_call.net.bytes) > asked
                   /\ dpc = "verify"
            /\ Len(CurrentFile.bytes) < FileSize => dl_call.kind \in {"retry", "error"}
            /\ dl_call.kind = "error" =>
                   (retries = DOWNLOAD_MAX_RETRIES + 1 /\ exc = "SystemExit" /\ dpc = "raised")

\* a file of one byte was resumed and the server sent the whole file: what is
\* on disk is longer than expected, and download_url has returned
C29_Witness ==
    /\ Attempted
    /\ dl_call.kind = "complete"
    /\ dl_call.existing = File(SubSeq(TrueBytes, 1, 1))
    /\ dl_call.request.range = <<1>>
    /\ CurrentFile = File(SubSeq(TrueBytes, 1, 1) \o TrueBytes)
    /\ dpc = "verify"

\* C30: a run that completes normally exits with status 0; a run ended by a
\* fatal error (raised through error(), or an unexpected exception that reaches
\* the top level) prints a diagnostic and exits with a status other than 0; a
\* run ended by a keyboard interrupt exits with status 0 and prints no error.
C30_ExitStatus ==
    dpc = "exited" =>
        /\ exc = "" => exit_status = 0
        /\ exc \in {"SystemExit", "UnboundLocalError"} =>
               (dl_call.printed /\ exit_status # 0)
        /\ exc = "KeyboardInterrupt" => (~dl_call.printed /\ exit_status = 0)

-----------------------------------------------------------------------------
(* The canonical installation after install() *)

\* at entry the canonical directory holds a recognized version other than the
\* target, and install() has moved it aside (line 713)
MovedAside ==
    /\ fs0[Canonical].ver \in Versions \ {version}
    /\ moved_unity_to # None

TargetInCanonical == version \in DOMAIN installs /\ installs[version] = Canonical

-----------------------------------------------------------------------------
(* The memoized list of versions *)

\* the keys of the four version partitions that do not start with '_'
PartitionKeys ==
    DOMAIN cache.discovered.url \cup DOMAIN cache.release.url
        \cup DOMAIN cache.patch.url \cup DOMAIN cache.beta.url

Ascending(list) ==
    \A i, j \in 1..Len(list) : i < j => compare_versions(list[i], list[j]) <= 0

Coherent(list) == Range(list) = PartitionKeys /\ Ascending(list)

BetweenCalls == cpc \in {"start", "forget", "discover", "defaults", "update", "versions", "baseurl"}

\* C37: whatever sequence of load, update, add and remove has run, what
\* get_sorted_versions() returns is made of exactly the versions that are keys
\* of the discovered, release, patch and beta partitions as they are now, in
\* ascending compare_versions order; and between two calls the memoized list,
\* when there is one, is that list.
C37_SortedCoherent ==
    /\ last_call.op = "get_sorted_versions" => Coherent(last_call.value)
    /\ (BetweenCalls /\ self_sorted_versions.set) => Coherent(self_sorted_versions.list)

C37_Witness ==
    /\ last_call.op = "get_sorted_versions"
    /\ Len(last_call.value) >= 3
    /\ cache.discovered.present
    /\ DOMAIN cache.discovered.url = {}
    /\ cache_file.data.discovered.url # <<>>

-----------------------------------------------------------------------------
(* The saved default packages *)

\* C38: after set_default_packages(list), with a list of packages or with the
\* empty list and in whatever state the cache was, the call has not raised,
\* default_packages() gives the list, and the cache file holds the cache.
C38_DefaultPackagesSaved ==
    last_call.op = "set_default_packages" =>
        /\ last_call.raised = ""
        /\ cache.default_packages = last_call.list
        /\ cache_file = save(cache)

-----------------------------------------------------------------------------
(* Properties of a run over several versions *)

EventsOf(kind) == {i \in 1..Len(events) : events[i].ev = kind}

StepOrder(kind) ==
    CASE kind = "prompt" -> 0 [] kind = "download" -> 1 [] kind = "install" -> 2
      [] kind = "clean_up" -> 3

\* the steps of each version come in the order prompt, downloads, install(),
\* clean-up, with install() entered and the clean-up done at most once
InOrder ==
    \A i, j \in 1..Len(events) :
        (i < j /\ events[i].version = events[j].version) =>
            \/ StepOrder(events[i].ev) < StepOrder(events[j].ev)
            \/ events[i].ev = "download" /\ events[j].ev = "download"

\* between two steps of a version there is no step of another version
Contiguous ==
    \A i, j, k \in 1..Len(events) :
        (i < j /\ j < k /\ events[i].version = events[k].version) =>
            events[j].version = events[i].version

\* the versions still to come are distinct and have not been started
Pending ==
    \A i \in 1..Len(run_versions) :
        /\ \A j \in 1..Len(run_versions) : run_versions[i] = run_versions[j] => i = j
        /\ \A k \in 1..Len(events) : events[k].version # run_versions[i]
        /\ rpc \notin {"loop", "start", "done", "exited"} => version # run_versions[i]

\* an installer is invoked
Invocation == Len(invoked') > Len(invoked)

Disposable == {".DS_Store", "Archive.PKG"}

Removed(v) == store.dirs[v].isdir /\ ~store'.dirs[v].isdir

InstallEntered == rpc = "install" /\ pc = "start"

\* the run installs both versions, each with its main package, on a volume
\* where find_unity_installs() found nothing
TwoOnFreshVolume ==
    /\ rpc # "start"
    /\ DOMAIN installs = {}
    /\ operation \in {None, "install"}
    /\ "mono" \notin Range(args_package)
    /\ <<"5", ".", "4">> \in Range(args_versions)
    /\ Cardinality(Range(args_versions)) = 2

\* what ends a run from outside: a download that fails, a wrong password, an
\* installer that fails or cannot be started, a package that was not downloaded
Adversity == {"error", "InstallError", "LaunchError", "NotDownloaded"}

====
